---- MODULE Spec2Model ----
(***************************************************************************)
(* Verification model of vibevj: the GPU resource model of the engine      *)
(* crate (RenderObject, RenderTarget), the scene crate's SceneRenderer,    *)
(* and the two Outputs driven by the winit event loop of VibeVJApp::run    *)
(* (primary window, optional preview window).                              *)
(*                                                                         *)
(* Floating point values are fixed point with one decimal digit            *)
(* (1.0 is 10).  Time is sampled at multiples of pi seconds, where every   *)
(* sine and cosine the update step evaluates is -1, 0 or 1.                *)
(***************************************************************************)
EXTENDS Integers, Sequences, FiniteSets, TLC

\* ------------------------------------------------------------------------
\* Bounds of the model
\* ------------------------------------------------------------------------
MaxTick == 1          \* elapsed time runs over 0..MaxTick (units of pi seconds)
MaxObjects == 2       \* drawables created in the engine harness
MaxAlloc == 14        \* resources the harness device allocates for drawables
MaxTargetAlloc == 8   \* textures the harness device allocates for the render target
MaxTargetDim == 3     \* render target widths and heights run over 1..MaxTargetDim
MaxWidth == 2         \* window widths of the render and preview harnesses run over 0..MaxWidth
MaxWindowWidth == 1   \* window widths of the event loop run over 0..MaxWindowWidth
MaxList == 2          \* length of the lists handed to the preview harness
MaxPreviewAlloc == 17 \* resources the preview harness device allocates
MaxSubdivisions == 3  \* subdivision counts of create_plane run over 1..MaxSubdivisions
MaxCallbacks == 2     \* most invocations of the audio input callback
MaxConnections == 2   \* most connections NodeGraph::connect is given to store
MaxSocketId == 3      \* largest id NodeGraph::new_socket_id of the editor hands out
MaxNodeId == 3        \* largest id Scene::generate_id hands out
MaxQueue == 8         \* tick events waiting in the event queue of the main loop

\* the surface format Renderer::new and PreviewWindow::new select
SurfaceFormat == "Bgra8UnormSrgb"

\* Option::None for a GPU handle; handles are positive
None == 0

\* f32 1.0 in fixed point
One == 10

\* ------------------------------------------------------------------------
\* glam::Mat4, column major, as the 16 entries of to_cols_array
\* ------------------------------------------------------------------------
Cos4(q) == CASE q % 4 = 0 -> One [] q % 4 = 1 -> 0 [] q % 4 = 2 -> -One [] OTHER -> 0

Sin4(q) == CASE q % 4 = 0 -> 0 [] q % 4 = 1 -> One [] q % 4 = 2 -> 0 [] OTHER -> -One

Mat4_IDENTITY == << One, 0, 0, 0,   0, One, 0, 0,   0, 0, One, 0,   0, 0, 0, One >>

Mat4_from_translation(x, y, z) == << One, 0, 0, 0,   0, One, 0, 0,   0, 0, One, 0,   x, y, z, One >>

\* rotations by q quarter turns
Mat4_from_rotation_x(q) ==
    << One, 0, 0, 0,   0, Cos4(q), Sin4(q), 0,   0, -Sin4(q), Cos4(q), 0,   0, 0, 0, One >>

Mat4_from_rotation_y(q) ==
    << Cos4(q), 0, -Sin4(q), 0,   0, One, 0, 0,   Sin4(q), 0, Cos4(q), 0,   0, 0, 0, One >>

Mat4_from_rotation_z(q) ==
    << Cos4(q), Sin4(q), 0, 0,   -Sin4(q), Cos4(q), 0, 0,   0, 0, One, 0,   0, 0, 0, One >>

\* entry (row r, column c), both 1..4
Mat4_at(m, r, c) == m[(c - 1) * 4 + r]

\* fixed-point quotient that is exact on the values the model multiplies
FixDiv(n) == IF n >= 0 THEN n \div One ELSE -((-n) \div One)

Mat4_mul(a, b) ==
    [i \in 1..16 |->
        LET r == ((i - 1) % 4) + 1
            c == ((i - 1) \div 4) + 1
        IN  FixDiv(Mat4_at(a, r, 1) * Mat4_at(b, 1, c) + Mat4_at(a, r, 2) * Mat4_at(b, 2, c)
                 + Mat4_at(a, r, 3) * Mat4_at(b, 3, c) + Mat4_at(a, r, 4) * Mat4_at(b, 4, c))]

\* Mat4::to_cols_array_2d: four columns of four entries
to_cols_array_2d(m) == [c \in 1..4 |-> [r \in 1..4 |-> m[(c - 1) * 4 + r]]]

ModelUniform(transform) == [model |-> to_cols_array_2d(transform)]

\* the transforms VibeVJApp::update computes at elapsed = k * pi (rotation_speed 1.0)
CubeTransform(k) ==
    Mat4_mul(Mat4_mul(Mat4_from_translation(0, 0, 0), Mat4_from_rotation_y(2 * k)),
             Mat4_from_rotation_x(k))

SphereTransform(k) ==
    Mat4_mul(Mat4_from_translation(-25, 0, 0), Mat4_from_rotation_z(3 * k))

\* the construction transforms of VibeVJApp::initialize
CubeInitTransform == Mat4_from_translation(0, 0, 0)

SphereInitTransform == Mat4_from_translation(-25, 0, 0)

\* ------------------------------------------------------------------------
\* mesh_gen: the shape generators.  Lengths, coordinates, sines and cosines
\* are in thousandths; angles are in units of pi / 12
\* ------------------------------------------------------------------------
Milli == 1000

\* sin of u * pi / 12, to three decimals
SinTable == <<0, 259, 500, 707, 866, 966, 1000, 966, 866, 707, 500, 259>>

SinU(u) == IF u % 24 < 12 THEN SinTable[(u % 24) + 1] ELSE -SinTable[(u % 24) - 11]

CosU(u) == SinU(u + 6)

\* f32 product of two values in thousandths, rounded to the nearest thousandth
MilliMul(a, b) ==
    IF a * b >= 0 THEN (a * b + 500) \div Milli ELSE -((-(a * b) + 500) \div Milli)

\* f32 quotient i / n in thousandths
MilliRatio(i, n) == (i * Milli + (n \div 2)) \div n

Vertex_new(position, normal, uv, color) ==
    [position |-> position, normal |-> normal, uv |-> uv, color |-> color]

Mesh_new(vertices, indices) == [vertices |-> vertices, indices |-> indices]

\* let s = size / 2.0
HalfExtent_Full(size) == size

HalfExtent(size) == size \div 2

create_cube(size) ==
    LET s == HalfExtent(size)
    IN  Mesh_new(
          << \* Front face (Z+)
             Vertex_new(<<-s, -s, s>>, <<0, 0, Milli>>, <<0, 0>>, <<Milli, 0, 0>>),
             Vertex_new(<<s, -s, s>>, <<0, 0, Milli>>, <<Milli, 0>>, <<Milli, 0, 0>>),
             Vertex_new(<<s, s, s>>, <<0, 0, Milli>>, <<Milli, Milli>>, <<Milli, 0, 0>>),
             Vertex_new(<<-s, s, s>>, <<0, 0, Milli>>, <<0, Milli>>, <<Milli, 0, 0>>),
             \* Back face (Z-)
             Vertex_new(<<s, -s, -s>>, <<0, 0, -Milli>>, <<0, 0>>, <<0, Milli, 0>>),
             Vertex_new(<<-s, -s, -s>>, <<0, 0, -Milli>>, <<Milli, 0>>, <<0, Milli, 0>>),
             Vertex_new(<<-s, s, -s>>, <<0, 0, -Milli>>, <<Milli, Milli>>, <<0, Milli, 0>>),
             Vertex_new(<<s, s, -s>>, <<0, 0, -Milli>>, <<0, Milli>>, <<0, Milli, 0>>),
             \* Right face (X+)
             Vertex_new(<<s, -s, s>>, <<Milli, 0, 0>>, <<0, 0>>, <<0, 0, Milli>>),
             Vertex_new(<<s, -s, -s>>, <<Milli, 0, 0>>, <<Milli, 0>>, <<0, 0, Milli>>),
             Vertex_new(<<s, s, -s>>, <<Milli, 0, 0>>, <<Milli, Milli>>, <<0, 0, Milli>>),
             Vertex_new(<<s, s, s>>, <<Milli, 0, 0>>, <<0, Milli>>, <<0, 0, Milli>>),
             \* Left face (X-)
             Vertex_new(<<-s, -s, -s>>, <<-Milli, 0, 0>>, <<0, 0>>, <<Milli, Milli, 0>>),
             Vertex_new(<<-s, -s, s>>, <<-Milli, 0, 0>>, <<Milli, 0>>, <<Milli, Milli, 0>>),
             Vertex_new(<<-s, s, s>>, <<-Milli, 0, 0>>, <<Milli, Milli>>, <<Milli, Milli, 0>>),
             Vertex_new(<<-s, s, -s>>, <<-Milli, 0, 0>>, <<0, Milli>>, <<Milli, Milli, 0>>),
             \* Top face (Y+)
             Vertex_new(<<-s, s, s>>, <<0, Milli, 0>>, <<0, 0>>, <<Milli, 0, Milli>>),
             Vertex_new(<<s, s, s>>, <<0, Milli, 0>>, <<Milli, 0>>, <<Milli, 0, Milli>>),
             Vertex_new(<<s, s, -s>>, <<0, Milli, 0>>, <<Milli, Milli>>, <<Milli, 0, Milli>>),
             Vertex_new(<<-s, s, -s>>, <<0, Milli, 0>>, <<0, Milli>>, <<Milli, 0, Milli>>),
             \* Bottom face (Y-)
             Vertex_new(<<-s, -s, -s>>, <<0, -Milli, 0>>, <<0, 0>>, <<0, Milli, Milli>>),
             Vertex_new(<<s, -s, -s>>, <<0, -Milli, 0>>, <<Milli, 0>>, <<0, Milli, Milli>>),
             Vertex_new(<<s, -s, s>>, <<0, -Milli, 0>>, <<Milli, Milli>>, <<0, Milli, Milli>>),
             Vertex_new(<<-s, -s, s>>, <<0, -Milli, 0>>, <<0, Milli>>, <<0, Milli, Milli>>) >>,
          << 0, 1, 2, 2, 3, 0,
             4, 5, 6, 6, 7, 4,
             8, 9, 10, 10, 11, 8,
             12, 13, 14, 14, 15, 12,
             16, 17, 18, 18, 19, 16,
             20, 21, 22, 22, 23, 20 >>)

\* the two triangles the index loops of create_sphere and create_plane push
\* for one cell: slot 0..5 of (current, next, current + 1, current + 1, next, next + 1)
QuadIndex_PastEnd(current, next, slot) ==
    CASE slot = 0 -> current
      [] slot = 1 -> next
      [] slot = 2 -> current + 1
      [] slot = 3 -> current + 1
      [] slot = 4 -> next
      [] OTHER    -> next + 2

QuadIndex(current, next, slot) ==
    CASE slot = 0 -> current
      [] slot = 1 -> next
      [] slot = 2 -> current + 1
      [] slot = 3 -> current + 1
      [] slot = 4 -> next
      [] OTHER    -> next + 1

\* segments divides 24 and rings divides 12, so that every angle is a
\* multiple of pi / 12
create_sphere(radius, segments, rings) ==
    Mesh_new(
      [k \in 1..((rings + 1) * (segments + 1)) |->
          LET ring    == (k - 1) \div (segments + 1)
              segment == (k - 1) % (segments + 1)
              phi     == (12 * ring) \div rings
              theta   == (24 * segment) \div segments
              x == MilliMul(SinU(phi), CosU(theta))
              y == CosU(phi)
              z == MilliMul(SinU(phi), SinU(theta))
          IN  Vertex_new(<<MilliMul(x, radius), MilliMul(y, radius), MilliMul(z, radius)>>,
                         <<x, y, z>>,
                         <<MilliRatio(segment, segments), MilliRatio(ring, rings)>>,
                         <<(x + Milli) \div 2, (y + Milli) \div 2, (z + Milli) \div 2>>)],
      [j \in 1..(6 * rings * segments) |->
          LET ring    == ((j - 1) \div 6) \div segments
              segment == ((j - 1) \div 6) % segments
              current == ring * (segments + 1) + segment
              next    == current + segments + 1
          IN  QuadIndex(current, next, (j - 1) % 6)])

create_plane(width, height, subdivisions_x, subdivisions_y) ==
    LET half_width  == width \div 2
        half_height == height \div 2
    IN  Mesh_new(
          [k \in 1..((subdivisions_y + 1) * (subdivisions_x + 1)) |->
              LET y == (k - 1) \div (subdivisions_x + 1)
                  x == (k - 1) % (subdivisions_x + 1)
                  v == MilliRatio(y, subdivisions_y)
                  u == MilliRatio(x, subdivisions_x)
              IN  Vertex_new(<<-half_width + MilliMul(width, u),
                               -half_height + MilliMul(height, v), 0>>,
                             <<0, 0, Milli>>, <<u, v>>, <<Milli, Milli, Milli>>)],
          [j \in 1..(6 * subdivisions_y * subdivisions_x) |->
              LET y        == ((j - 1) \div 6) \div subdivisions_x
                  x        == ((j - 1) \div 6) % subdivisions_x
                  base     == y * (subdivisions_x + 1) + x
                  next_row == base + subdivisions_x + 1
              IN  QuadIndex(base, next_row, (j - 1) % 6)])

\* segments divides 24; the two cap centres are appended without indices
create_cylinder(radius, height, segments) ==
    LET half_height == height \div 2
        side == [k \in 1..(2 * (segments + 1)) |->
                    LET ring    == (k - 1) \div (segments + 1)
                        segment == (k - 1) % (segments + 1)
                        y       == IF ring = 0 THEN -half_height ELSE half_height
                        theta   == (24 * segment) \div segments
                        x       == CosU(theta)
                        z       == SinU(theta)
                    IN  Vertex_new(<<MilliMul(x, radius), y, MilliMul(z, radius)>>,
                                   <<x, 0, z>>,
                                   <<MilliRatio(segment, segments), ring * Milli>>,
                                   <<Milli, Milli, Milli>>)]
    IN  Mesh_new(
          side \o << Vertex_new(<<0, -half_height, 0>>, <<0, -Milli, 0>>, <<500, 500>>,
                                <<Milli, Milli, Milli>>),
                     Vertex_new(<<0, half_height, 0>>, <<0, Milli, 0>>, <<500, 500>>,
                                <<Milli, Milli, Milli>>) >>,
          [j \in 1..(6 * segments) |->
              LET segment  == (j - 1) \div 6
                  base     == segment
                  next     == segment + 1
                  top_base == base + segments + 1
                  top_next == next + segments + 1
              IN  CASE (j - 1) % 6 = 0 -> base
                    [] (j - 1) % 6 = 1 -> top_base
                    [] (j - 1) % 6 = 2 -> next
                    [] (j - 1) % 6 = 3 -> next
                    [] (j - 1) % 6 = 4 -> top_base
                    [] OTHER           -> top_next])

\* ------------------------------------------------------------------------
\* vibevj-scene: Scene and SceneNode.  nodes is the HashMap as a function
\* from the ids present; Option<NodeId> is a sequence of length 0 or 1
\* ------------------------------------------------------------------------
SceneNode_new(id) == [id |-> id, parent |-> <<>>, children |-> <<>>]

\* variant: the child is pushed without the contains test
SceneNode_add_child_Always(node, child_id) ==
    [node EXCEPT !.children = Append(@, child_id)]

SceneNode_add_child(node, child_id) ==
    IF \E k \in 1..Len(node.children) : node.children[k] = child_id
    THEN node
    ELSE [node EXCEPT !.children = Append(@, child_id)]

\* variant: nothing is taken from the children list
SceneNode_remove_child_Keep(node, child_id) == node

SceneNode_remove_child(node, child_id) ==
    [node EXCEPT !.children = SelectSeq(@, LAMBDA id : id # child_id)]

SceneRoot == 0

Scene_new == [root |-> SceneRoot, nodes |-> (SceneRoot :> SceneNode_new(SceneRoot)), next_id |-> 1]

\* Scene::create_node(name, parent); yields the scene after the call and the
\* result: <<"Ok", id>> or <<"Err">>
Scene_create_node(sc, parent) ==
    LET id        == sc.next_id
        sc1       == [sc EXCEPT !.next_id = @ + 1]
        parent_id == IF parent = <<>> THEN sc.root ELSE parent[1]
        node      == [SceneNode_new(id) EXCEPT !.parent = <<parent_id>>]
    IN  IF parent_id \in DOMAIN sc1.nodes
        THEN [scene |-> [sc1 EXCEPT !.nodes =
                            [@ EXCEPT ![parent_id] = SceneNode_add_child(@, id)]
                            @@ (id :> node)],
              result |-> <<"Ok", id>>]
        ELSE [scene |-> sc1, result |-> <<"Err">>]

\* Scene::remove_node(id) with its loop over the children cloned at entry;
\* `?` ends the loop and the call at the first Err
RECURSIVE Scene_remove_node(_, _)
RECURSIVE RemoveChildren(_, _, _)
RemoveChildren(sc, children, i) ==
    IF i > Len(children) THEN [scene |-> sc, result |-> <<"Ok">>]
    ELSE LET r == Scene_remove_node(sc, children[i])
         IN  IF r.result[1] = "Err" THEN r ELSE RemoveChildren(r.scene, children, i + 1)

Scene_remove_node(sc, id) ==
    IF id = sc.root THEN [scene |-> sc, result |-> <<"Err">>]
    ELSE
      LET children == IF id \in DOMAIN sc.nodes THEN sc.nodes[id].children ELSE <<>>
          parent   == IF id \in DOMAIN sc.nodes THEN sc.nodes[id].parent ELSE <<>>
          sc1      == IF parent # <<>> /\ parent[1] \in DOMAIN sc.nodes
                      THEN [sc EXCEPT !.nodes[parent[1]] = SceneNode_remove_child(@, id)]
                      ELSE sc
          r        == RemoveChildren(sc1, children, 1)
      IN  IF r.result[1] = "Err" THEN r
          ELSE [scene |-> [r.scene EXCEPT !.nodes =
                              [n \in (DOMAIN r.scene.nodes) \ {id} |-> r.scene.nodes[n]]],
                result |-> <<"Ok">>]

\* Scene::clear
Scene_clear(sc) ==
    LET root == sc.nodes[sc.root]
    IN  [sc EXCEPT !.nodes = (sc.root :> root), !.next_id = 1]

\* ------------------------------------------------------------------------
\* vibevj-scene: NodeGraph.  nodes is the HashMap<String, GraphNode> as a
\* function from the ids present, connections the Vec<GraphConnection>
\* ------------------------------------------------------------------------
GraphNode_new(id, node_type) == [id |-> id, node_type |-> node_type]

GraphConnection(from_node, from_port, to_node, to_port) ==
    [from_node |-> from_node, from_port |-> from_port,
     to_node |-> to_node, to_port |-> to_port]

NodeGraph_new == [nodes |-> <<>>, connections |-> <<>>]

\* HashMap::insert: a node of the same id is replaced
NodeGraph_add_node(g, node) ==
    [g EXCEPT !.nodes = [id \in (DOMAIN @) \cup {node.id} |->
                            IF id = node.id THEN node ELSE @[id]]]

\* variant: the connections of the removed node stay
NodeGraph_remove_node_KeepConnections(g, node_id) ==
    [g EXCEPT !.nodes = [id \in (DOMAIN @) \ {node_id} |-> @[id]]]

NodeGraph_remove_node(g, node_id) ==
    [g EXCEPT !.nodes = [id \in (DOMAIN @) \ {node_id} |-> @[id]],
              !.connections = SelectSeq(@, LAMBDA c :
                                  c.from_node # node_id /\ c.to_node # node_id)]

\* NodeGraph::connect; yields the graph after the call and "Ok" or the Err
NodeGraph_connect(g, connection) ==
    IF connection.from_node \notin DOMAIN g.nodes
    THEN [graph |-> g, result |-> "Err: source not found"]
    ELSE IF connection.to_node \notin DOMAIN g.nodes
    THEN [graph |-> g, result |-> "Err: target not found"]
    ELSE [graph |-> [g EXCEPT !.connections = Append(@, connection)], result |-> "Ok"]

NodeGraph_disconnect(g, from_node, from_port, to_node, to_port) ==
    [g EXCEPT !.connections = SelectSeq(@, LAMBDA c :
                  ~(/\ c.from_node = from_node
                    /\ c.from_port = from_port
                    /\ c.to_node = to_node
                    /\ c.to_port = to_port))]

\* ------------------------------------------------------------------------
\* vibevj-gui scene editor: Node, Socket, Connection and the editor's
\* NodeGraph.  A Socket is its id and socket_type; Option is a sequence of
\* length 0 or 1
\* ------------------------------------------------------------------------
Socket(id, socket_type) == [id |-> id, socket_type |-> socket_type]

Node_new(id) == [id |-> id, inputs |-> <<>>, outputs |-> <<>>]

Node_add_input(node, id) == [node EXCEPT !.inputs = Append(@, Socket(id, "Input"))]

Node_add_output(node, id) == [node EXCEPT !.outputs = Append(@, Socket(id, "Output"))]

\* Node::get_socket: the first socket of that id, inputs before outputs
Node_get_socket(node, socket_id) ==
    LET all  == node.inputs \o node.outputs
        hits == {k \in 1..Len(all) : all[k].id = socket_id}
    IN  IF hits = {} THEN <<>>
        ELSE <<all[CHOOSE k \in hits : \A j \in hits : k <= j]>>

Connection(from_node, from_socket, to_node, to_socket) ==
    [from_node |-> from_node, from_socket |-> from_socket,
     to_node |-> to_node, to_socket |-> to_socket]

EditorNodeGraph_new ==
    [nodes |-> <<>>, connections |-> <<>>, next_node_id |-> 1, next_socket_id |-> 1,
     selected_node |-> <<>>]

\* the loops of add_node over a socket list: a socket of id 0 takes the id
\* new_socket_id returns
RECURSIVE AssignSocketIds(_, _, _)
AssignSocketIds(sockets, next, i) ==
    IF i > Len(sockets) THEN [sockets |-> sockets, next |-> next]
    ELSE IF sockets[i].id = 0
    THEN AssignSocketIds([sockets EXCEPT ![i].id = next], next + 1, i + 1)
    ELSE AssignSocketIds(sockets, next, i + 1)

EditorNodeGraph_add_node(g, node) ==
    LET ins   == AssignSocketIds(node.inputs, g.next_socket_id, 1)
        outs  == AssignSocketIds(node.outputs, ins.next, 1)
        node1 == [node EXCEPT !.inputs = ins.sockets, !.outputs = outs.sockets]
    IN  [g EXCEPT !.next_socket_id = outs.next,
                  !.nodes = [id \in (DOMAIN @) \cup {node.id} |->
                                IF id = node.id THEN node1 ELSE @[id]]]

EditorNodeGraph_remove_node(g, node_id) ==
    [g EXCEPT !.nodes = [id \in (DOMAIN @) \ {node_id} |-> @[id]],
              !.connections = SelectSeq(@, LAMBDA conn :
                                  conn.from_node # node_id /\ conn.to_node # node_id),
              !.selected_node = IF @ = <<node_id>> THEN <<>> ELSE @]

\* NodeGraph::add_connection; yields the graph after the call and the bool
EditorNodeGraph_add_connection(g, connection) ==
    IF /\ connection.from_node \in DOMAIN g.nodes
       /\ connection.to_node \in DOMAIN g.nodes
       /\ Node_get_socket(g.nodes[connection.from_node], connection.from_socket) # <<>>
       /\ Node_get_socket(g.nodes[connection.to_node], connection.to_socket) # <<>>
       /\ Node_get_socket(g.nodes[connection.from_node], connection.from_socket)[1].socket_type = "Output"
       /\ Node_get_socket(g.nodes[connection.to_node], connection.to_socket)[1].socket_type = "Input"
    THEN [graph |-> [g EXCEPT !.connections =
                        Append(SelectSeq(@, LAMBDA conn :
                                   ~(/\ conn.to_node = connection.to_node
                                     /\ conn.to_socket = connection.to_socket)),
                               connection)],
          result |-> TRUE]
    ELSE [graph |-> g, result |-> FALSE]

EditorNodeGraph_remove_connection(g, connection) ==
    [g EXCEPT !.connections = SelectSeq(@, LAMBDA c : c # connection)]

\* ------------------------------------------------------------------------
\* vibevj-audio: AudioInput.  sample_buffer is the Vec behind the Mutex,
\* lock the holder of the Mutex; samples are i16 values and the buffer holds
\* them as f32 in thousandths
\* ------------------------------------------------------------------------
\* cpal::Sample::from_sample for i16 -> f32: the sample over 32768
FromSample(sample) ==
    IF sample >= 0 THEN (sample * 1000) \div 32768 ELSE -(((-sample) * 1000) \div 32768)

\* variant: lock() returns while another thread holds the mutex
Mutex_lock_NoExclusion(lock) == TRUE

\* Mutex::lock returns once no thread holds the mutex
Mutex_lock(lock) == lock = "free"

AudioInput_new ==
    [sample_buffer |-> <<>>, lock |-> "free",
     cb |-> [pc |-> "idle", data |-> <<>>, i |-> 1],
     main |-> [pc |-> "idle", got |-> <<>>, after |-> 0],
     complete |-> <<>>, invocations |-> 0]

\* ------------------------------------------------------------------------
\* Mesh and Material values of the test objects
\* ------------------------------------------------------------------------
CubeMesh == [name |-> "cube", n_vertices |-> 24, n_indices |-> 36]

SphereMesh(segments, rings) ==
    [name |-> "sphere", n_vertices |-> (rings + 1) * (segments + 1),
     n_indices |-> rings * segments * 6]

Material_unlit(color) ==
    [color |-> color, metallic |-> 0, roughness |-> One,
     emissive |-> <<0, 0, 0, One>>, shader_type |-> "Unlit"]

MaterialUniform(material) ==
    [color |-> material.color, emissive |-> material.emissive,
     metallic |-> material.metallic, roughness |-> material.roughness,
     padding |-> <<0, 0>>]

CubeMaterial == Material_unlit(<<10, 5, 2, 10>>)

SphereMaterial == Material_unlit(<<2, 5, 10, 10>>)

\* ------------------------------------------------------------------------
\* A wgpu device: the resources it has allocated, a handle is an index
\* ------------------------------------------------------------------------
NewDevice(name) == [name |-> name, mem |-> <<>>]

NextHandle(dev) == Len(dev.mem) + 1

create_buffer_init(dev, label, contents) ==
    [dev EXCEPT !.mem = Append(@, [kind |-> "buffer", label |-> label, data |-> contents])]

create_bind_group(dev, label, buffer) ==
    [dev EXCEPT !.mem = Append(@, [kind |-> "bind_group", label |-> label, data |-> buffer])]

create_texture(dev, label, width, height, format) ==
    [dev EXCEPT !.mem = Append(@, [kind |-> "texture", label |-> label,
                                   data |-> <<width, height, format>>])]

write_buffer(dev, buffer, contents) == [dev EXCEPT !.mem[buffer].data = contents]

\* ------------------------------------------------------------------------
\* RenderObject
\* ------------------------------------------------------------------------
RenderObject_new(mesh, material, transform) ==
    [mesh |-> mesh, material |-> material, transform |-> transform,
     vertex_buffer |-> None, index_buffer |-> None, material_buffer |-> None,
     model_buffer |-> None, material_bind_group |-> None, model_bind_group |-> None]

\* RenderObject::upload; yields the object and the device after the call
RenderObject_upload(obj, dev) ==
    LET d1 == create_buffer_init(dev, "Vertex Buffer", <<"vertices", obj.mesh.name>>)
        o1 == [obj EXCEPT !.vertex_buffer = Len(d1.mem)]
        d2 == create_buffer_init(d1, "Index Buffer", <<"indices", obj.mesh.name>>)
        o2 == [o1 EXCEPT !.index_buffer = Len(d2.mem)]
        d3 == create_buffer_init(d2, "Material Buffer", MaterialUniform(o2.material))
        o3 == [o2 EXCEPT !.material_buffer = Len(d3.mem)]
        d4 == create_buffer_init(d3, "Model Buffer", ModelUniform(o3.transform))
        o4 == [o3 EXCEPT !.model_buffer = Len(d4.mem)]
        d5 == IF o4.material_buffer # None
              THEN create_bind_group(d4, "Material Bind Group", o4.material_buffer) ELSE d4
        o5 == IF o4.material_buffer # None
              THEN [o4 EXCEPT !.material_bind_group = Len(d5.mem)] ELSE o4
        d6 == IF o5.model_buffer # None
              THEN create_bind_group(d5, "Model Bind Group", o5.model_buffer) ELSE d5
        o6 == IF o5.model_buffer # None
              THEN [o5 EXCEPT !.model_bind_group = Len(d6.mem)] ELSE o5
    IN  [obj |-> o6, dev |-> d6]

\* variant: the transform is stored but not written to the model buffer
RenderObject_update_transform_NoWrite(obj, dev, transform) ==
    [obj |-> [obj EXCEPT !.transform = transform], dev |-> dev]

\* variant: an uploaded drawable gets a fresh model buffer instead of a write
RenderObject_update_transform_Realloc(obj, dev, transform) ==
    LET o1 == [obj EXCEPT !.transform = transform]
        d1 == create_buffer_init(dev, "Model Buffer", ModelUniform(o1.transform))
    IN  IF o1.model_buffer # None
        THEN [obj |-> [o1 EXCEPT !.model_buffer = Len(d1.mem)], dev |-> d1]
        ELSE [obj |-> o1, dev |-> dev]

\* RenderObject::update_transform; yields the object and the device after the call
RenderObject_update_transform(obj, dev, transform) ==
    LET o1 == [obj EXCEPT !.transform = transform]
    IN  [obj |-> o1,
         dev |-> IF o1.model_buffer # None
                 THEN write_buffer(dev, o1.model_buffer, ModelUniform(o1.transform))
                 ELSE dev]

\* ------------------------------------------------------------------------
\* RenderTarget
\* ------------------------------------------------------------------------
\* RenderTarget::new; yields the target and the device after the call
RenderTarget_new(dev, width, height, format) ==
    LET d1 == create_texture(dev, "color", width, height, format)
        d2 == create_texture(d1, "depth", width, height, "Depth32Float")
    IN  [target |-> [texture |-> Len(d1.mem), depth_texture |-> Len(d2.mem),
                     width |-> width, height |-> height, format |-> format],
         dev |-> d2]

\* variant: the early return on unchanged dimensions is dropped
RenderTarget_resize_NoGuard(target, dev, width, height) ==
    RenderTarget_new(dev, width, height, target.format)

RenderTarget_resize(target, dev, width, height) ==
    IF target.width = width /\ target.height = height
    THEN [target |-> target, dev |-> dev]
    ELSE RenderTarget_new(dev, width, height, target.format)

\* ------------------------------------------------------------------------
\* SceneRenderer::render: the commands of the scene render pass
\* ------------------------------------------------------------------------
Cmd(op, obj, args) == [op |-> op, obj |-> obj, args |-> args]

\* variant: the readiness test is dropped
DrawReady_NoCheck(object) == TRUE

DrawReady(object) ==
    /\ object.vertex_buffer # None
    /\ object.index_buffer # None
    /\ object.model_bind_group # None
    /\ object.material_bind_group # None

DrawIndexed(i, object) ==
    Cmd("draw_indexed", i,
        <<object.model_bind_group, object.material_bind_group,
          object.vertex_buffer, object.index_buffer, 0, object.mesh.n_indices>>)

RECURSIVE DrawLoop(_, _)
DrawLoop(objects, i) ==
    IF i > Len(objects) THEN <<>>
    ELSE (IF DrawReady(objects[i]) THEN <<DrawIndexed(i, objects[i])>> ELSE <<>>)
         \o DrawLoop(objects, i + 1)

SceneRenderer_render(objects) ==
    <<Cmd("begin_render_pass", 0, <<>>), Cmd("set_camera_bind_group", 0, <<>>)>>
    \o DrawLoop(objects, 1)

\* ------------------------------------------------------------------------
\* Camera of a SceneRenderer
\* ------------------------------------------------------------------------
\* Camera::new(position (3, 2, 5), target 0, aspect); aspect is width / height
Camera_new(aspect) ==
    [position |-> <<30, 20, 50>>, target |-> <<0, 0, 0>>, up |-> <<0, One, 0>>,
     fov |-> 45, aspect |-> aspect, near |-> 1, far |-> 1000]

CameraUniform_new == [view_proj |-> to_cols_array_2d(Mat4_IDENTITY)]

\* CameraUniform::update_view_proj: projection * view of the camera
CameraUniform(camera) == [view_proj |-> <<"projection * view", camera>>]

\* SceneRenderer::new: the camera buffer and its bind group are handles 1 and 2
SceneRenderer_new(dev, camera) ==
    LET d1 == create_buffer_init(dev, "Camera Buffer", CameraUniform_new)
        d2 == create_bind_group(d1, "Camera Bind Group", Len(d1.mem))
    IN  [scene_renderer |-> [camera |-> camera, camera_buffer |-> Len(d1.mem),
                             camera_bind_group |-> Len(d2.mem)],
         dev |-> d2]

\* SceneRenderer::update_camera
SceneRenderer_update_camera(sr, dev) ==
    write_buffer(dev, sr.camera_buffer, CameraUniform(sr.camera))

\* ------------------------------------------------------------------------
\* Window sizes and the presentation surface
\* ------------------------------------------------------------------------
\* PhysicalSize<u32> values: a minimised window and windows of height 1
SizesUpTo(max_width) == {<<0, 0>>} \cup {<<w, 1>> : w \in 1..max_width}

\* the sizes the windows of the harnesses take
Sizes == SizesUpTo(MaxWidth)

\* the sizes the windows of the event loop take
WindowSizes == SizesUpTo(MaxWindowWidth)

NonZero(size) == size[1] > 0 /\ size[2] > 0

Max(a, b) == IF a >= b THEN a ELSE b

\* the message of a failed acquire, as the set of the substrings the render
\* functions search for that occur in it
SurfaceErrors ==
    { {"surface has changed", "swap chain must be updated"}, {"Timeout"}, {"outdated"}, {} }

AcquireOutcomes ==
    {[ok |-> TRUE, msg |-> {}]} \cup {[ok |-> FALSE, msg |-> m] : m \in SurfaceErrors}

\* the substrings VibeVJApp::render retries on
MainPatterns == {"surface has changed", "swap chain must be updated", "Timeout"}

\* the substrings PreviewWindow::render retries on
PreviewPatterns == {"surface has changed", "swap chain must be updated", "Timeout", "outdated"}

Matches(msg, patterns) == msg \cap patterns # {}

\* what a render call meets: the outcomes of its acquires and the inner size
\* of its window; the second outcome and the size are consulted by a retry
\* only, and the message of a second failure is not inspected
SurfaceInputs(patterns, sizes) ==
    {e \in [a1 : AcquireOutcomes, a2 : AcquireOutcomes, inner : sizes] :
        IF e.a1.ok \/ ~Matches(e.a1.msg, patterns)
        THEN e.a2 = e.a1 /\ e.inner = <<0, 0>>
        ELSE e.a2.msg = {}}

MainSurfaceInputs == SurfaceInputs(MainPatterns, WindowSizes)

PreviewSurfaceInputs == SurfaceInputs(PreviewPatterns, WindowSizes)

HarnessMainSurfaceInputs == SurfaceInputs(MainPatterns, Sizes)

HarnessPreviewSurfaceInputs == SurfaceInputs(PreviewPatterns, Sizes)

Acquire(outcome) == Cmd("acquire", 0, <<outcome.ok, outcome.msg>>)

\* the calls resize(new_size) makes: the surface is configured for a
\* size with both dimensions positive only
ResizeCmds(new_size) ==
    <<Cmd("resize", 0, new_size)>>
    \o (IF NonZero(new_size) THEN <<Cmd("configure", 0, new_size)>> ELSE <<>>)

\* Renderer::resize
Renderer_resize(r, new_size) ==
    IF NonZero(new_size) THEN [r EXCEPT !.size = new_size, !.config = new_size] ELSE r

\* variant: the new size is stored and configured whatever it is
PreviewWindow_resize_Unchecked(pw, new_size) ==
    [pw EXCEPT !.size = new_size, !.config = new_size]

\* PreviewWindow::resize
PreviewWindow_resize(pw, new_size) ==
    IF NonZero(new_size) THEN [pw EXCEPT !.size = new_size, !.config = new_size] ELSE pw

\* variant: a third acquire after a failed retry
AcquireWithRetry_Thrice(patterns, a1, a2, inner) ==
    IF a1.ok THEN [ok |-> TRUE, retried |-> FALSE, cmds |-> <<Acquire(a1)>>]
    ELSE IF Matches(a1.msg, patterns)
         THEN [ok |-> a2.ok, retried |-> TRUE,
               cmds |-> <<Acquire(a1)>> \o ResizeCmds(inner) \o <<Acquire(a2)>>
                        \o (IF a2.ok THEN <<>> ELSE <<Acquire(a2)>>)]
         ELSE [ok |-> FALSE, retried |-> FALSE, cmds |-> <<Acquire(a1)>>]

\* variant: no failure is retried
AcquireWithRetry_Never(patterns, a1, a2, inner) ==
    [ok |-> a1.ok, retried |-> FALSE, cmds |-> <<Acquire(a1)>>]

\* the match on get_current_texture of both render functions: a1 and a2 are
\* the outcomes of the first and of the second acquire, inner is
\* window.inner_size()
AcquireWithRetry(patterns, a1, a2, inner) ==
    IF a1.ok THEN [ok |-> TRUE, retried |-> FALSE, cmds |-> <<Acquire(a1)>>]
    ELSE IF Matches(a1.msg, patterns)
         THEN [ok |-> a2.ok, retried |-> TRUE,
               cmds |-> <<Acquire(a1)>> \o ResizeCmds(inner) \o <<Acquire(a2)>>]
         ELSE [ok |-> FALSE, retried |-> FALSE, cmds |-> <<Acquire(a1)>>]

\* ------------------------------------------------------------------------
\* PreviewWindow
\* ------------------------------------------------------------------------
\* PreviewWindow::new for a window of inner size `inner`
PreviewWindow_new(inner) ==
    LET s == SceneRenderer_new(NewDevice("preview"), Camera_new(inner))
        t == RenderTarget_new(s.dev, Max(inner[1], 1), Max(inner[2], 1), SurfaceFormat)
        d == create_bind_group(t.dev, "Preview Blit Bind Group", t.target.texture)
    IN  [size |-> inner,
         config |-> <<Max(inner[1], 1), Max(inner[2], 1)>>,
         is_ready |-> FALSE, dev |-> d, scene_renderer |-> s.scene_renderer,
         render_target |-> t.target, blit_bind_group |-> Len(d.mem),
         render_objects |-> <<>>, pending_transforms |-> <<>>]

\* the map of init_scene_objects: new and upload of every tuple, in order
RECURSIVE UploadAll(_, _, _)
UploadAll(data, i, acc) ==
    IF i > Len(data) THEN acc
    ELSE LET r == RenderObject_upload(
                      RenderObject_new(data[i].mesh, data[i].material, data[i].transform),
                      acc.dev)
         IN  UploadAll(data, i + 1, [objs |-> Append(acc.objs, r.obj), dev |-> r.dev])

\* variant: the objects are created and the window is left not ready
PreviewWindow_init_scene_objects_NotReady(pw, data) ==
    LET r == UploadAll(data, 1, [objs |-> <<>>, dev |-> pw.dev])
    IN  [pw EXCEPT !.render_objects = r.objs, !.dev = r.dev]

\* PreviewWindow::init_scene_objects
PreviewWindow_init_scene_objects(pw, data) ==
    LET r == UploadAll(data, 1, [objs |-> <<>>, dev |-> pw.dev])
    IN  [pw EXCEPT !.render_objects = r.objs, !.dev = r.dev, !.is_ready = TRUE]

\* PreviewWindow::update_scene
PreviewWindow_update_scene(pw, transforms) == [pw EXCEPT !.pending_transforms = transforms]

\* variant: the pending transform is stored without the buffer write
ApplyPending_NoWrite(pw, i, acc) ==
    IF i <= Len(pw.render_objects)
    THEN [acc EXCEPT !.objs[i].transform = pw.pending_transforms[i]]
    ELSE acc

\* one iteration of the loop over pending_transforms in PreviewWindow::render
ApplyPending(pw, i, acc) ==
    IF i <= Len(pw.render_objects)
    THEN LET o == [acc.objs[i] EXCEPT !.transform = pw.pending_transforms[i]]
         IN  IF o.model_buffer # None
             THEN [objs |-> [acc.objs EXCEPT ![i] = o],
                   dev |-> write_buffer(acc.dev, o.model_buffer,
                                        ModelUniform(pw.pending_transforms[i])),
                   cmds |-> Append(acc.cmds, Cmd("write_buffer", i, <<o.model_buffer>>))]
             ELSE [acc EXCEPT !.objs[i] = o]
    ELSE acc

RECURSIVE ApplyAllPending(_, _, _)
ApplyAllPending(pw, i, acc) ==
    IF i > Len(pw.pending_transforms) THEN acc
    ELSE ApplyAllPending(pw, i + 1, ApplyPending(pw, i, acc))

\* variant: the camera uniform is written after the pass was recorded
RecordScene_CameraLate(sr, objects) ==
    SceneRenderer_render(objects) \o <<Cmd("write_buffer", 0, <<sr.camera_buffer>>)>>

\* scene_renderer.update_camera(queue) followed by scene_renderer.render(..),
\* as both render functions call them
RecordScene(sr, objects) ==
    <<Cmd("write_buffer", 0, <<sr.camera_buffer>>)>> \o SceneRenderer_render(objects)

\* variant: a ready window with no render objects goes on to record,
\* acquire and present
PreviewWindow_render_NoEmptyCheck(pw, inner, a1, a2) ==
    IF ~pw.is_ready THEN [pw |-> pw, result |-> "Ok", stream |-> <<>>]
    ELSE
      LET ap  == ApplyAllPending(pw, 1, [objs |-> pw.render_objects, dev |-> pw.dev,
                                         cmds |-> <<>>])
          c1  == ap.cmds \o RecordScene(pw.scene_renderer, ap.objs)
          acq == AcquireWithRetry(PreviewPatterns, a1, a2, inner)
          pw1 == [pw EXCEPT !.render_objects = ap.objs, !.dev = ap.dev]
      IN  IF acq.ok
          THEN [pw |-> pw1, result |-> "Ok",
                stream |-> c1 \o acq.cmds
                           \o <<Cmd("blit", 0, <<pw.blit_bind_group>>),
                                Cmd("submit", 0, <<>>), Cmd("present", 0, <<>>)>>]
          ELSE [pw |-> pw1, result |-> "Err", stream |-> c1 \o acq.cmds]

\* PreviewWindow::render; a1, a2 are the outcomes of the acquires, inner is
\* window.inner_size(); yields the window after the call, the result and
\* the commands issued
PreviewWindow_render(pw, inner, a1, a2) ==
    IF ~pw.is_ready THEN [pw |-> pw, result |-> "Ok", stream |-> <<>>]
    ELSE IF pw.render_objects = <<>> THEN [pw |-> pw, result |-> "Ok", stream |-> <<>>]
    ELSE
      LET ap  == ApplyAllPending(pw, 1, [objs |-> pw.render_objects, dev |-> pw.dev,
                                         cmds |-> <<>>])
          d1  == SceneRenderer_update_camera(pw.scene_renderer, ap.dev)
          c1  == ap.cmds \o RecordScene(pw.scene_renderer, ap.objs)
          acq == AcquireWithRetry(PreviewPatterns, a1, a2, inner)
          pw1 == [pw EXCEPT !.render_objects = ap.objs, !.dev = d1]
          pw2 == IF acq.retried THEN PreviewWindow_resize(pw1, inner) ELSE pw1
      IN  IF acq.ok
          THEN [pw |-> pw2, result |-> "Ok",
                stream |-> c1 \o acq.cmds
                           \o <<Cmd("blit", 0, <<pw.blit_bind_group>>),
                                Cmd("submit", 0, <<>>), Cmd("present", 0, <<>>)>>]
          ELSE [pw |-> pw2, result |-> "Err", stream |-> c1 \o acq.cmds]

\* ------------------------------------------------------------------------
\* VibeVJApp: initialize, update, render
\* ------------------------------------------------------------------------
\* the transforms of the cube and of the sphere at elapsed = k * pi
UpdateTransforms == [k \in 0..MaxTick |-> <<CubeTransform(k), SphereTransform(k)>>]

Transforms(objs) == [i \in 1..Len(objs) |-> objs[i].transform]

\* VibeVJApp::initialize for a main window of inner size `size`: the Renderer,
\* the SceneRenderer, the render target and the two uploaded test objects
VibeVJApp_initialize(size) ==
    LET s  == SceneRenderer_new(NewDevice("primary"), Camera_new(size))
        t  == RenderTarget_new(s.dev, 1280, 720, SurfaceFormat)
        c  == RenderObject_upload(
                  RenderObject_new(CubeMesh, CubeMaterial, CubeInitTransform), t.dev)
        sp == RenderObject_upload(
                  RenderObject_new(SphereMesh(32, 16), SphereMaterial, SphereInitTransform),
                  c.dev)
    IN  [size |-> size, config |-> size, dev |-> sp.dev,
         scene_renderer |-> s.scene_renderer, render_target |-> t.target,
         render_objects |-> <<c.obj, sp.obj>>]

\* variant: switching the toggle off leaves the preview in place
TogglePreview_KeepPreview(a, pv) ==
    LET should_show == a.gui_show
    IN  IF should_show # a.show_preview_window
        THEN [app |-> [a EXCEPT !.show_preview_window = should_show], preview |-> pv]
        ELSE [app |-> a, preview |-> pv]

\* the check of the preview toggle in VibeVJApp::update
TogglePreview(a, pv) ==
    LET should_show == a.gui_show
    IN  IF should_show # a.show_preview_window
        THEN [app |-> [a EXCEPT !.show_preview_window = should_show],
              preview |-> IF ~should_show THEN <<>> ELSE pv]
        ELSE [app |-> a, preview |-> pv]

\* VibeVJApp::update; d is the time passed since the last update;
\* yields app, the primary, the preview option and the queue writes made
VibeVJApp_update(a, pr, pv, d) ==
    LET k   == a.elapsed + d
        tg  == TogglePreview(a, pv)
        a1  == [tg.app EXCEPT !.elapsed = k]
        pv1 == tg.preview
        u1  == IF pr.render_objects # <<>>
               THEN LET r == RenderObject_update_transform(pr.render_objects[1], pr.dev,
                                                           UpdateTransforms[k][1])
                    IN  [objs |-> [pr.render_objects EXCEPT ![1] = r.obj], dev |-> r.dev,
                         cmds |-> <<Cmd("write_buffer", 1, <<r.obj.model_buffer>>)>>]
               ELSE [objs |-> pr.render_objects, dev |-> pr.dev, cmds |-> <<>>]
        u2  == IF Len(u1.objs) > 1
               THEN LET r == RenderObject_update_transform(u1.objs[2], u1.dev,
                                                           UpdateTransforms[k][2])
                    IN  [objs |-> [u1.objs EXCEPT ![2] = r.obj], dev |-> r.dev,
                         cmds |-> Append(u1.cmds, Cmd("write_buffer", 2, <<r.obj.model_buffer>>))]
               ELSE u1
    IN  [app |-> a1, primary |-> [pr EXCEPT !.render_objects = u2.objs, !.dev = u2.dev],
         preview |-> pv1, cmds |-> u2.cmds]

\* VibeVJApp::render; a1, a2 are the outcomes of the acquires, inner is
\* window.inner_size(), click tells whether the user toggles the preview
\* checkbox in this frame's GUI pass
VibeVJApp_render(a, pr, pv, inner, a1, a2, click) ==
    LET acq == AcquireWithRetry(MainPatterns, a1, a2, inner)
        pr1 == IF acq.retried THEN Renderer_resize(pr, inner) ELSE pr
    IN  IF ~acq.ok
        THEN [app |-> a, primary |-> pr1, preview |-> pv, result |-> "Err",
              stream |-> acq.cmds]
        ELSE [app |-> IF click THEN [a EXCEPT !.gui_show = ~a.gui_show] ELSE a,
              primary |-> [pr1 EXCEPT !.dev = SceneRenderer_update_camera(pr1.scene_renderer,
                                                                          pr1.dev)],
              preview |-> IF pv # <<>>
                          THEN <<PreviewWindow_update_scene(pv[1], Transforms(pr1.render_objects))>>
                          ELSE pv,
              result |-> "Ok",
              stream |-> acq.cmds
                         \o RecordScene(pr1.scene_renderer, pr1.render_objects)
                         \o <<Cmd("gui_pass", 0, <<>>), Cmd("submit", 0, <<>>),
                              Cmd("present", 0, <<>>)>>]

\* variant: the handler renders first and updates afterwards
MainFrame_RenderFirst(a, pr, pv, d, inner, a1, a2, click) ==
    CHOOSE f \in UNION {
        {[app |-> u.app, primary |-> u.primary, preview |-> u.preview, result |-> r.result,
          stream |-> r.stream \o u.cmds,
          calls |-> <<"render">>
                    \o (IF r.result = "Ok" /\ pv # <<>> THEN <<"preview.update_scene">>
                        ELSE <<>>)
                    \o <<"update">>] :
            u \in {VibeVJApp_update(r.app, r.primary, r.preview, d)}} :
        r \in {VibeVJApp_render(a, pr, pv, inner, a1, a2, click)}} : TRUE

\* the RedrawRequested arm of the main window: self.update(), then
\* self.render(); yields the state after both, the result of render, the
\* queue writes of update followed by the commands of render, and the calls
\* made in order (u is the outcome of update, r that of render)
MainFrame(a, pr, pv, d, inner, a1, a2, click) ==
    CHOOSE f \in UNION {
        {[app |-> r.app, primary |-> r.primary, preview |-> r.preview, result |-> r.result,
          stream |-> u.cmds \o r.stream,
          calls |-> <<"update", "render">>
                    \o (IF r.result = "Ok" /\ u.preview # <<>>
                        THEN <<"preview.update_scene">> ELSE <<>>)] :
            r \in {VibeVJApp_render(u.app, u.primary, u.preview, inner, a1, a2, click)}} :
        u \in {VibeVJApp_update(a, pr, pv, d)}} : TRUE

\* ------------------------------------------------------------------------
\* State
\* ------------------------------------------------------------------------
VARIABLES
    \* engine harness: one device, a list of drawables, one render target
    edev,        \* the device the harness objects are uploaded to
    eobjs,       \* the drawables, in creation order
    egiven,      \* per drawable: the transform last given, and by which call (new, update_transform)
    etarget,     \* the RenderTarget
    epass,       \* the commands of the last SceneRenderer::render
    ecall,       \* the last call made: operation, drawable, arguments, allocation count
    emesh,       \* mesh_gen harness: the last generator call and the mesh it returned
    timer,       \* the timer thread of main, the tick events it posted, the event loop's end
    scene,       \* vibevj-scene Scene: nodes by id, next_id, and the last call made on it
    graph,       \* vibevj-scene NodeGraph: nodes by id, connections, and the last call
    editor,      \* the scene editor's NodeGraph and the last call made on it
    audio,       \* AudioInput: the shared sample buffer, its mutex, callback and reader
    \* the application: VibeVJApp and the winit event loop
    app,         \* window, exited, show_preview_window, the GUI's toggle, elapsed
    primary,     \* Option: the primary Output (window size, Renderer, scene objects)
    preview,     \* Option<PreviewWindow>
    redraw,      \* request_redraw pending for the main and the preview window
    last,        \* the last event handled: event, result of render, commands issued
    hist         \* the transform lists the primary held at the end of its frames

\* the state of the harnesses of the other crates and threads
hvars == <<timer, scene, graph, editor, audio>>

evars == <<edev, eobjs, egiven, etarget, epass, ecall, emesh, hvars>>

avars == <<app, primary, preview, redraw, last, hist>>

vars == <<evars, avars>>

\* ------------------------------------------------------------------------
\* Engine harness: any sequence of calls on RenderObject, RenderTarget and
\* SceneRenderer::render
\* ------------------------------------------------------------------------
\* two transforms the harnesses hand over: the cube at elapsed 0 and at elapsed pi
HarnessTransforms == {CubeTransform(k) : k \in 0..1}

HarnessMeshes == {CubeMesh, SphereMesh(32, 16)}

TargetDims == 1..MaxTargetDim

ECall(op, i, arg, dev) == [op |-> op, i |-> i, arg |-> arg, allocs |-> Len(dev.mem) - Len(edev.mem)]

\* main before the timer thread has run: it sleeps first, nothing is posted
HInit ==
    /\ timer = [pc |-> "sleep", queue |-> 0, closed |-> FALSE, failed |-> 0]
    /\ scene = [sc |-> Scene_new, call |-> <<"new">>, result |-> <<"Ok">>]
    /\ graph = [g |-> NodeGraph_new, call |-> <<"new">>, result |-> "Ok"]
    /\ editor = [g |-> EditorNodeGraph_new, call |-> <<"new">>, result |-> TRUE]
    /\ audio = AudioInput_new

EInit ==
    LET r == RenderTarget_new(NewDevice("harness"), 1, 1, SurfaceFormat)
    IN  /\ HInit
        /\ edev = r.dev
        /\ etarget = r.target
        /\ eobjs = <<>>
        /\ egiven = <<>>
        /\ epass = <<>>
        /\ ecall = [op |-> "init", i |-> 0, arg |-> <<>>, allocs |-> 2]
        /\ emesh = [call |-> <<"none">>, mesh |-> Mesh_new(<<>>, <<>>)]

\* VibeVJApp::new, before the event loop runs
AInit ==
    /\ app = [window |-> FALSE, exited |-> FALSE, show_preview_window |-> FALSE,
              gui_show |-> FALSE, elapsed |-> 0]
    /\ primary = <<>>
    /\ preview = <<>>
    /\ redraw = [main |-> FALSE, preview |-> FALSE]
    /\ last = [event |-> "other", result |-> "none", log |-> <<>>, calls |-> <<>>]
    /\ hist = [held |-> {}, stable |-> FALSE, updated |-> FALSE]

ENew ==
    /\ Len(eobjs) < MaxObjects
    /\ \E mesh \in HarnessMeshes, t \in HarnessTransforms :
          /\ eobjs' = Append(eobjs, RenderObject_new(mesh, CubeMaterial, t))
          /\ egiven' = Append(egiven, [t |-> t, by |-> "new"])
    /\ ecall' = ECall("new", Len(eobjs) + 1, <<>>, edev)
    /\ UNCHANGED <<edev, etarget, epass, emesh, hvars>>
    /\ UNCHANGED avars

EUpload ==
    /\ Len(edev.mem) + 6 <= MaxAlloc
    /\ \E i \in 1..Len(eobjs) :
          \E r \in {RenderObject_upload(eobjs[i], edev)} :
              /\ eobjs' = [eobjs EXCEPT ![i] = r.obj]
              /\ edev' = r.dev
              /\ ecall' = ECall("upload", i, <<>>, r.dev)
    /\ UNCHANGED <<egiven, etarget, epass, emesh, hvars>>
    /\ UNCHANGED avars

EUpdateTransform ==
    /\ \E i \in 1..Len(eobjs), t \in HarnessTransforms :
          \E r \in {RenderObject_update_transform(eobjs[i], edev, t)} :
              /\ eobjs' = [eobjs EXCEPT ![i] = r.obj]
              /\ edev' = r.dev
              /\ egiven' = [egiven EXCEPT ![i] = [t |-> t, by |-> "update_transform"]]
              /\ ecall' = ECall("update_transform", i, <<>>, r.dev)
    /\ UNCHANGED <<etarget, epass, emesh, hvars>>
    /\ UNCHANGED avars

ERender ==
    /\ epass' = SceneRenderer_render(eobjs)
    /\ ecall' = ECall("render", 0, <<>>, edev)
    /\ UNCHANGED <<edev, eobjs, egiven, etarget, emesh, hvars>>
    /\ UNCHANGED avars

EResize ==
    /\ Len(edev.mem) + 2 <= MaxTargetAlloc
    /\ \E w \in TargetDims, h \in TargetDims :
          \E r \in {RenderTarget_resize(etarget, edev, w, h)} :
              /\ etarget' = r.target
              /\ edev' = r.dev
              /\ ecall' = ECall("resize", 0, <<w, h>>, r.dev)
    /\ UNCHANGED <<eobjs, egiven, epass, emesh, hvars>>
    /\ UNCHANGED avars

\* the application before the event loop runs, next to the engine harness
Init == AInit /\ EInit

ENext == ENew \/ EUpload \/ EUpdateTransform \/ ERender

\* any sequence of new, upload, update_transform and SceneRenderer::render
SpecEngine == Init /\ [][ENext]_vars

TNext == EResize

\* any sequence of RenderTarget::resize
SpecTarget == Init /\ [][TNext]_vars

\* ------------------------------------------------------------------------
\* Mesh harness: any sequence of calls of the shape generators
\* ------------------------------------------------------------------------
\* sizes, radii, widths and heights handed to the generators: 0.8, 1.0, 2.0
Lengths == {800, 1000, 2000}

\* segment and ring counts whose angles are multiples of pi / 12
SegmentCounts == {1, 2, 3, 4, 6, 8}

RingCounts == {1, 2, 3, 4, 6}

Subdivisions == 1..MaxSubdivisions

MCreateCube ==
    /\ \E size \in Lengths :
          emesh' = [call |-> <<"create_cube", size>>, mesh |-> create_cube(size)]
    /\ UNCHANGED <<edev, eobjs, egiven, etarget, epass, ecall, hvars, avars>>

MCreateSphere ==
    /\ \E radius \in Lengths, segments \in SegmentCounts, rings \in RingCounts :
          emesh' = [call |-> <<"create_sphere", radius, segments, rings>>,
                    mesh |-> create_sphere(radius, segments, rings)]
    /\ UNCHANGED <<edev, eobjs, egiven, etarget, epass, ecall, hvars, avars>>

MCreatePlane ==
    /\ \E width \in Lengths, height \in Lengths,
          subdivisions_x \in Subdivisions, subdivisions_y \in Subdivisions :
          emesh' = [call |-> <<"create_plane", width, height, subdivisions_x, subdivisions_y>>,
                    mesh |-> create_plane(width, height, subdivisions_x, subdivisions_y)]
    /\ UNCHANGED <<edev, eobjs, egiven, etarget, epass, ecall, hvars, avars>>

MCreateCylinder ==
    /\ \E radius \in Lengths, height \in Lengths, segments \in SegmentCounts :
          emesh' = [call |-> <<"create_cylinder", radius, height, segments>>,
                    mesh |-> create_cylinder(radius, height, segments)]
    /\ UNCHANGED <<edev, eobjs, egiven, etarget, epass, ecall, hvars, avars>>

MNext == MCreateCube \/ MCreateSphere \/ MCreatePlane \/ MCreateCylinder

SpecMesh == Init /\ [][MNext]_vars

\* ------------------------------------------------------------------------
\* The event loop of VibeVJApp::run: one action per event handled
\* ------------------------------------------------------------------------
\* variant: the handler drops the error without logging it
LogRenderError_Silent(ev, result) == <<>>

\* `if let Err(e) = render() { log::error!(..) }` of the two redraw handlers
LogRenderError(ev, result) ==
    IF result = "Err"
    THEN <<IF ev = "preview_redraw" THEN "Preview window render error" ELSE "Render error">>
    ELSE <<>>

\* the record of a handled event: the handler, the result of its render call,
\* what it logged at error level and the calls it made, in order; a call on
\* the preview is written "preview.<method>"
Event(ev, res, calls) ==
    [event |-> ev, result |-> res, log |-> LogRenderError(ev, res), calls |-> calls]

\* an event whose handler does not render
Other == Event("other", "none", <<>>)

\* the Err arm of the match on PreviewWindow::new
PreviewCreationFailed_KeepToggle(a) == [a EXCEPT !.show_preview_window = FALSE]

PreviewCreationFailed(a) == [a EXCEPT !.show_preview_window = FALSE, !.gui_show = FALSE]

\* the record of Event::AboutToWait: whether a preview creation was tried
AboutToWaitEvent(outcome) ==
    [event |-> "about_to_wait", result |-> outcome,
     log |-> IF outcome = "failed" THEN <<"Failed to create preview window">> ELSE <<>>,
     calls |-> IF outcome = "created" THEN <<"preview.init_scene_objects">> ELSE <<>>]

\* run returns after elwt.exit(): the windows and all GPU state are dropped
Exited ==
    /\ app' = [window |-> FALSE, exited |-> TRUE, show_preview_window |-> FALSE,
               gui_show |-> FALSE, elapsed |-> 0]
    /\ primary' = <<>>
    /\ preview' = <<>>
    /\ redraw' = [main |-> FALSE, preview |-> FALSE]
    /\ hist' = [held |-> {}, stable |-> FALSE, updated |-> FALSE]
    /\ last' = Other

\* Event::Resumed: the main window is created and the application initialised
Resumed ==
    /\ ~app.exited
    /\ ~app.window
    /\ \E ok \in BOOLEAN, size \in {sz \in WindowSizes : NonZero(sz)} :
          IF ok
          THEN \E p \in {VibeVJApp_initialize(size)} :
               /\ primary' = <<p>>
               /\ app' = [app EXCEPT !.window = TRUE]
               /\ hist' = [held |-> {Transforms(p.render_objects)}, stable |-> FALSE, updated |-> FALSE]
               /\ last' = Other
               /\ UNCHANGED <<preview, redraw>>
          ELSE Exited
    /\ UNCHANGED evars

\* WindowEvent::CloseRequested of the main window
MainCloseRequested ==
    /\ ~app.exited
    /\ app.window
    /\ Exited
    /\ UNCHANGED evars

\* WindowEvent::Resized(physical_size) of the main window
MainResized ==
    /\ ~app.exited
    /\ primary # <<>>
    /\ \E physical_size \in WindowSizes :
          primary' = <<Renderer_resize(primary[1], physical_size)>>
    /\ last' = Other
    /\ UNCHANGED <<app, preview, redraw, hist, evars>>

\* WindowEvent::RedrawRequested of the main window: update, render, request_redraw
MainRedrawRequested ==
    /\ ~app.exited
    /\ primary # <<>>
    /\ \E d \in {e \in 0..1 : app.elapsed + e <= MaxTick}, click \in BOOLEAN,
          in \in MainSurfaceInputs :
          \E r \in {MainFrame(app, primary[1], preview, d, in.inner, in.a1, in.a2, click)} :
              /\ app' = r.app
              /\ primary' = <<r.primary>>
              /\ preview' = r.preview
              /\ redraw' = [main |-> TRUE,
                            preview |-> redraw.preview /\ r.preview # <<>>]
              /\ last' = Event("main_redraw", r.result, r.calls)
              /\ hist' = [held |-> hist.held \cup {Transforms(r.primary.render_objects)},
                          stable |-> Transforms(r.primary.render_objects)
                                       = Transforms(primary[1].render_objects),
                          updated |-> TRUE]
    /\ UNCHANGED evars

\* WindowEvent::CloseRequested of the preview window
PreviewCloseRequested ==
    /\ ~app.exited
    /\ preview # <<>>
    /\ preview' = <<>>
    /\ app' = [app EXCEPT !.show_preview_window = FALSE, !.gui_show = FALSE]
    /\ redraw' = [redraw EXCEPT !.preview = FALSE]
    /\ last' = Event("preview_close", "none", <<>>)
    /\ UNCHANGED <<primary, hist, evars>>

\* WindowEvent::Resized(physical_size) of the preview window
PreviewResized ==
    /\ ~app.exited
    /\ preview # <<>>
    /\ \E physical_size \in WindowSizes :
          preview' = <<PreviewWindow_resize(preview[1], physical_size)>>
    /\ last' = Event("preview_resized", "none", <<"preview.handle_input", "preview.resize">>)
    /\ UNCHANGED <<app, primary, redraw, hist, evars>>

\* WindowEvent::RedrawRequested of the preview window
PreviewRedrawRequested ==
    /\ ~app.exited
    /\ preview # <<>>
    /\ \E in \in PreviewSurfaceInputs :
          \E r \in {PreviewWindow_render(preview[1], in.inner, in.a1, in.a2)} :
              /\ preview' = <<r.pw>>
              /\ last' = Event("preview_redraw", r.result,
                               <<"preview.handle_input", "preview.render">>)
    /\ redraw' = [redraw EXCEPT !.preview = FALSE]
    /\ UNCHANGED <<app, primary, hist, evars>>

\* variant: the transform of the primary's drawable is not copied
MeshMaterialData_NoTransform(objs) ==
    [i \in 1..Len(objs) |->
        [mesh |-> objs[i].mesh, material |-> objs[i].material, transform |-> Mat4_IDENTITY]]

\* the tuples VibeVJApp::run hands to init_scene_objects
MeshMaterialData(objs) ==
    [i \in 1..Len(objs) |->
        [mesh |-> objs[i].mesh, material |-> objs[i].material, transform |-> objs[i].transform]]

\* Event::AboutToWait: create the preview when it is wanted and missing,
\* then request a redraw of every window
AboutToWait ==
    /\ ~app.exited
    /\ IF app.show_preview_window /\ preview = <<>> /\ primary # <<>>
       THEN \E ok \in BOOLEAN, inner \in WindowSizes :
               IF ok
               THEN \E pw \in {PreviewWindow_init_scene_objects(
                                  PreviewWindow_new(inner),
                                  MeshMaterialData(primary[1].render_objects))} :
                    /\ preview' = <<pw>>
                    /\ app' = app
                    /\ last' = AboutToWaitEvent("created")
               ELSE /\ preview' = preview
                    /\ app' = PreviewCreationFailed(app)
                    /\ last' = AboutToWaitEvent("failed")
       ELSE /\ UNCHANGED <<preview, app>>
            /\ last' = AboutToWaitEvent("none")
    /\ redraw' = [main |-> redraw.main \/ app.window,
                  preview |-> redraw.preview \/ preview' # <<>>]
    /\ UNCHANGED <<primary, hist, evars>>

Next ==
    \/ Resumed
    \/ MainCloseRequested
    \/ MainResized
    \/ MainRedrawRequested
    \/ PreviewCloseRequested
    \/ PreviewResized
    \/ PreviewRedrawRequested
    \/ AboutToWait

\* the application driven by any sequence of window events
Spec == Init /\ [][Next]_vars

\* ControlFlow::Poll: the loop keeps iterating, so AboutToWait keeps coming
FairSpec == Spec /\ WF_vars(AboutToWait)

\* ------------------------------------------------------------------------
\* Render harness: any sequence of render calls on two live Outputs
\* ------------------------------------------------------------------------
\* the record of a call: the function, its result, the commands it issued
\* and the inner size its window had
Call(op, res, stream, inner) ==
    [event |-> op, result |-> res, stream |-> stream, inner |-> inner]

\* the application with its main window initialised and the preview created
RInit ==
    /\ EInit
    /\ app = [window |-> TRUE, exited |-> FALSE, show_preview_window |-> TRUE,
              gui_show |-> TRUE, elapsed |-> 0]
    /\ \E size \in {sz \in Sizes : NonZero(sz)}, inner \in Sizes :
          \E p \in {VibeVJApp_initialize(size)} :
             /\ primary = <<p>>
             /\ preview = <<PreviewWindow_init_scene_objects(
                                PreviewWindow_new(inner),
                                MeshMaterialData(p.render_objects))>>
             /\ hist = [held |-> {Transforms(p.render_objects)}, stable |-> FALSE,
                        updated |-> TRUE]
    /\ redraw = [main |-> FALSE, preview |-> FALSE]
    /\ last = Call("new", "none", <<>>, <<0, 0>>)

\* VibeVJApp::render
RMainRender ==
    /\ \E in \in HarnessMainSurfaceInputs, click \in BOOLEAN :
          \E r \in {VibeVJApp_render(app, primary[1], preview, in.inner, in.a1, in.a2,
                                     click)} :
              /\ app' = r.app
              /\ primary' = <<r.primary>>
              /\ preview' = r.preview
              /\ last' = Call("main_render", r.result, r.stream, in.inner)
    /\ UNCHANGED <<redraw, hist, evars>>

\* PreviewWindow::render
RPreviewRender ==
    /\ \E in \in HarnessPreviewSurfaceInputs :
          \E r \in {PreviewWindow_render(preview[1], in.inner, in.a1, in.a2)} :
              /\ preview' = <<r.pw>>
              /\ last' = Call("preview_render", r.result, r.stream, in.inner)
    /\ UNCHANGED <<app, primary, redraw, hist, evars>>

RNext == RMainRender \/ RPreviewRender

SpecRender == RInit /\ [][RNext]_vars

\* ------------------------------------------------------------------------
\* Resize harness: resize calls on the two Outputs with any size, a zero
\* width or height included, beside the preview's render, whose retry resizes
\* ------------------------------------------------------------------------
ResizeSizes == Sizes \cup {<<0, 1>>, <<1, 0>>}

\* Renderer::resize on the primary Output
ZResizeMain ==
    /\ \E new_size \in ResizeSizes :
          /\ primary' = <<Renderer_resize(primary[1], new_size)>>
          /\ last' = Call("renderer.resize", "none", ResizeCmds(new_size), new_size)
    /\ UNCHANGED <<app, preview, redraw, hist, evars>>

\* PreviewWindow::resize on the preview Output
ZResizePreview ==
    /\ \E new_size \in ResizeSizes :
          /\ preview' = <<PreviewWindow_resize(preview[1], new_size)>>
          /\ last' = Call("preview.resize", "none", ResizeCmds(new_size), new_size)
    /\ UNCHANGED <<app, primary, redraw, hist, evars>>

\* the preview is closed and created again for a window of any size
ZNewPreview ==
    /\ \E inner \in ResizeSizes :
          /\ preview' = <<PreviewWindow_init_scene_objects(
                             PreviewWindow_new(inner),
                             MeshMaterialData(primary[1].render_objects))>>
          /\ last' = Call("preview.new", "none", <<>>, inner)
    /\ UNCHANGED <<app, primary, redraw, hist, evars>>

ZNext == ZResizeMain \/ ZResizePreview \/ ZNewPreview \/ RPreviewRender

SpecResize == RInit /\ [][ZNext]_vars

\* ------------------------------------------------------------------------
\* Frame harness: whole frames of the two Outputs, with their command streams
\* ------------------------------------------------------------------------
\* the RedrawRequested handler of the main window: update, then render; the
\* stream holds the queue writes of update followed by the commands of render
RMainFrame ==
    /\ \E d \in {e \in 0..1 : app.elapsed + e <= MaxTick}, click \in BOOLEAN,
          in \in MainSurfaceInputs :
          \E r \in {MainFrame(app, primary[1], preview, d, in.inner, in.a1, in.a2, click)} :
              /\ app' = r.app
              /\ primary' = <<r.primary>>
              /\ preview' = r.preview
              /\ last' = Call("main_frame", r.result, r.stream, in.inner)
    /\ UNCHANGED <<redraw, hist, evars>>

\* the RedrawRequested handler of the preview window
RPreviewFrame ==
    /\ preview # <<>>
    /\ \E in \in PreviewSurfaceInputs :
          \E r \in {PreviewWindow_render(preview[1], in.inner, in.a1, in.a2)} :
              /\ preview' = <<r.pw>>
              /\ last' = Call("preview_frame", r.result, r.stream, in.inner)
    /\ UNCHANGED <<app, primary, redraw, hist, evars>>

FNext == RMainFrame \/ RPreviewFrame

SpecFrame == RInit /\ [][FNext]_vars


\* ------------------------------------------------------------------------
\* Preview harness: any sequence of calls on one PreviewWindow
\* ------------------------------------------------------------------------
\* transform lists and (mesh, material, transform) lists of up to MaxList entries
HarnessLists == UNION {[1..n -> HarnessTransforms] : n \in 0..MaxList}

HarnessData ==
    UNION {[1..n -> {[mesh |-> CubeMesh, material |-> CubeMaterial, transform |-> t] :
                        t \in HarnessTransforms}] : n \in 0..MaxList}

\* the record of a call on the preview: the function, its result, its argument
PCall(op, res, arg) == [event |-> op, result |-> res, arg |-> arg]

\* a PreviewWindow right after PreviewWindow::new
PInit ==
    /\ EInit
    /\ app = [window |-> TRUE, exited |-> FALSE, show_preview_window |-> TRUE,
              gui_show |-> TRUE, elapsed |-> 0]
    /\ primary = <<>>
    /\ preview = <<PreviewWindow_new(<<1, 1>>)>>
    /\ redraw = [main |-> FALSE, preview |-> FALSE]
    /\ hist = [held |-> {}, stable |-> FALSE, updated |-> FALSE]
    /\ last = PCall("new", "none", <<>>)

PInitSceneObjects ==
    /\ \E data \in HarnessData :
          /\ Len(preview[1].dev.mem) + 6 * Len(data) <= MaxPreviewAlloc
          /\ preview' = <<PreviewWindow_init_scene_objects(preview[1], data)>>
          /\ last' = PCall("init_scene_objects", "none", data)
    /\ UNCHANGED <<app, primary, redraw, hist, evars>>

PUpdateScene ==
    /\ \E transforms \in HarnessLists :
          /\ preview' = <<PreviewWindow_update_scene(preview[1], transforms)>>
          /\ last' = PCall("update_scene", "none", transforms)
    /\ UNCHANGED <<app, primary, redraw, hist, evars>>

PRender ==
    /\ \E in \in HarnessPreviewSurfaceInputs :
          \E r \in {PreviewWindow_render(preview[1], in.inner, in.a1, in.a2)} :
              /\ preview' = <<r.pw>>
              /\ last' = PCall("render", r.result, r.stream)
    /\ UNCHANGED <<app, primary, redraw, hist, evars>>

PResize ==
    /\ \E new_size \in Sizes :
          /\ preview' = <<PreviewWindow_resize(preview[1], new_size)>>
          /\ last' = PCall("resize", "none", new_size)
    /\ UNCHANGED <<app, primary, redraw, hist, evars>>

PNext == PInitSceneObjects \/ PUpdateScene \/ PRender \/ PResize

SpecPreview == PInit /\ [][PNext]_vars

\* ------------------------------------------------------------------------
\* The timer thread of main, running beside the event loop
\* ------------------------------------------------------------------------
\* variant: the thread keeps posting after a post has failed
TimerPost_KeepGoing(t) ==
    IF t.closed
    THEN [t EXCEPT !.pc = "sleep", !.failed = IF @ < 2 THEN @ + 1 ELSE @]
    ELSE [t EXCEPT !.pc = "sleep", !.queue = @ + 1]

\* `if event_loop_proxy.send_event(AppEvent::AnimationTick).is_err() { break; }`:
\* the post fails once the event loop is gone
TimerPost(t) ==
    IF t.closed
    THEN [t EXCEPT !.pc = "done", !.failed = @ + 1]
    ELSE [t EXCEPT !.pc = "sleep", !.queue = @ + 1]

\* thread::sleep(frame_duration) returns
TimerSleep ==
    /\ timer.pc = "sleep"
    /\ timer' = [timer EXCEPT !.pc = "send"]
    /\ UNCHANGED <<edev, eobjs, egiven, etarget, epass, ecall, emesh, scene, graph, editor, audio, avars>>

\* event_loop_proxy.send_event
TimerSend ==
    /\ timer.pc = "send"
    /\ timer.closed \/ timer.queue < MaxQueue
    /\ timer' = TimerPost(timer)
    /\ UNCHANGED <<edev, eobjs, egiven, etarget, epass, ecall, emesh, scene, graph, editor, audio, avars>>

\* Event::UserEvent: the loop takes a tick from its queue; run handles it in
\* the `_ => {}` arm
UserEvent ==
    /\ ~app.exited
    /\ timer.queue > 0
    /\ timer' = [timer EXCEPT !.queue = @ - 1]
    /\ last' = Other
    /\ UNCHANGED <<edev, eobjs, egiven, etarget, epass, ecall, emesh, scene, graph, editor, audio,
                   app, primary, preview, redraw, hist>>

\* run has returned after elwt.exit() and the event loop is dropped with the
\* ticks still queued
EventLoopDropped ==
    /\ app.exited
    /\ ~timer.closed
    /\ timer' = [timer EXCEPT !.closed = TRUE, !.queue = 0]
    /\ UNCHANGED <<edev, eobjs, egiven, etarget, epass, ecall, emesh, scene, graph, editor, audio, avars>>

TimerNext ==
    \/ TimerSleep
    \/ TimerSend
    \/ UserEvent
    \/ EventLoopDropped
    \/ Resumed
    \/ MainCloseRequested
    \/ MainResized
    \/ AboutToWait

\* the timer thread interleaved with the event loop
SpecTimer == Init /\ [][TimerNext]_vars

\* ------------------------------------------------------------------------
\* Scene harness: any sequence of create_node, remove_node and clear
\* ------------------------------------------------------------------------
NodeIds == 0..MaxNodeId

\* the other variables of the scene harness's steps
SceneFrame == <<edev, eobjs, egiven, etarget, epass, ecall, emesh, timer, graph, editor, audio, avars>>

SCreateNode ==
    /\ scene.sc.next_id <= MaxNodeId
    /\ \E parent \in {<<>>} \cup {<<id>> : id \in NodeIds} :
          \E r \in {Scene_create_node(scene.sc, parent)} :
              scene' = [sc |-> r.scene, call |-> <<"create_node", parent>>,
                        result |-> r.result]
    /\ UNCHANGED SceneFrame

SRemoveNode ==
    /\ \E id \in NodeIds :
          \E r \in {Scene_remove_node(scene.sc, id)} :
              scene' = [sc |-> r.scene, call |-> <<"remove_node", id>>,
                        result |-> r.result]
    /\ UNCHANGED SceneFrame

SClear ==
    /\ scene' = [sc |-> Scene_clear(scene.sc), call |-> <<"clear">>, result |-> <<"Ok">>]
    /\ UNCHANGED SceneFrame

SNext == SCreateNode \/ SRemoveNode \/ SClear

SpecScene == Init /\ [][SNext]_vars

\* ------------------------------------------------------------------------
\* NodeGraph harness: any sequence of add_node, remove_node, connect and
\* disconnect, over two node ids and the ports of the predefined node types
\* ------------------------------------------------------------------------
GraphNodeIds == {"shader", "output"}
GraphNodeTypes == {"Shader"}
GraphOutPorts == {"Color"}
GraphInPorts == {"Color", "Geometry"}

GraphConnections ==
    {GraphConnection(f, fp, t, tp) :
        f \in GraphNodeIds, fp \in GraphOutPorts, t \in GraphNodeIds, tp \in GraphInPorts}

GraphFrame == <<edev, eobjs, egiven, etarget, epass, ecall, emesh, timer, scene, editor, audio, avars>>

GAddNode ==
    /\ \E id \in GraphNodeIds, ty \in GraphNodeTypes :
          graph' = [g |-> NodeGraph_add_node(graph.g, GraphNode_new(id, ty)),
                    call |-> <<"add_node", id>>, result |-> "Ok"]
    /\ UNCHANGED GraphFrame

GRemoveNode ==
    /\ \E id \in GraphNodeIds :
          graph' = [g |-> NodeGraph_remove_node(graph.g, id),
                    call |-> <<"remove_node", id>>, result |-> "Ok"]
    /\ UNCHANGED GraphFrame

GConnect ==
    /\ Len(graph.g.connections) < MaxConnections
    /\ \E c \in GraphConnections :
          \E r \in {NodeGraph_connect(graph.g, c)} :
              graph' = [g |-> r.graph, call |-> <<"connect", c>>, result |-> r.result]
    /\ UNCHANGED GraphFrame

GDisconnect ==
    /\ \E c \in GraphConnections :
          graph' = [g |-> NodeGraph_disconnect(graph.g, c.from_node, c.from_port,
                                               c.to_node, c.to_port),
                    call |-> <<"disconnect", c>>, result |-> "Ok"]
    /\ UNCHANGED GraphFrame

GNext == GAddNode \/ GRemoveNode \/ GConnect \/ GDisconnect

SpecGraph == Init /\ [][GNext]_vars

\* ------------------------------------------------------------------------
\* Editor graph harness: any sequence of add_node, add_connection,
\* remove_connection and remove_node on the editor's NodeGraph
\* ------------------------------------------------------------------------
EditorNodeIds == {1, 2}
EditorSocketIds == {1, 2}

\* the nodes handed to add_node: a source, a sink, a filter, and a filter
\* whose sockets have id 0 and are numbered by add_node
EditorNodes ==
    UNION {{ Node_add_output(Node_new(id), 2),
             Node_add_input(Node_new(id), 1),
             Node_add_output(Node_add_input(Node_new(id), 1), 2),
             Node_add_output(Node_add_input(Node_new(id), 0), 0) } : id \in EditorNodeIds}

EditorConnections ==
    {Connection(f, fs, t, ts) :
        f \in EditorNodeIds, fs \in EditorSocketIds, t \in EditorNodeIds, ts \in EditorSocketIds}

ZeroIds(node) ==
    Cardinality({k \in 1..Len(node.inputs) : node.inputs[k].id = 0})
    + Cardinality({k \in 1..Len(node.outputs) : node.outputs[k].id = 0})

EditorFrame == <<edev, eobjs, egiven, etarget, epass, ecall, emesh, timer, scene, graph, audio, avars>>

EdAddNode ==
    /\ \E node \in EditorNodes :
          /\ editor.g.next_socket_id + ZeroIds(node) <= MaxSocketId + 1
          /\ editor' = [g |-> EditorNodeGraph_add_node(editor.g, node),
                        call |-> <<"add_node", node.id>>, result |-> TRUE]
    /\ UNCHANGED EditorFrame

EdRemoveNode ==
    /\ \E id \in EditorNodeIds :
          editor' = [g |-> EditorNodeGraph_remove_node(editor.g, id),
                     call |-> <<"remove_node", id>>, result |-> TRUE]
    /\ UNCHANGED EditorFrame

EdAddConnection ==
    /\ \E c \in EditorConnections :
          \E r \in {EditorNodeGraph_add_connection(editor.g, c)} :
              editor' = [g |-> r.graph, call |-> <<"add_connection", c>>,
                         result |-> r.result]
    /\ UNCHANGED EditorFrame

EdRemoveConnection ==
    /\ \E c \in EditorConnections :
          editor' = [g |-> EditorNodeGraph_remove_connection(editor.g, c),
                     call |-> <<"remove_connection", c>>, result |-> TRUE]
    /\ UNCHANGED EditorFrame

EdNext == EdAddNode \/ EdRemoveNode \/ EdAddConnection \/ EdRemoveConnection

SpecEditor == Init /\ [][EdNext]_vars

\* ------------------------------------------------------------------------
\* Audio harness: the input callback on the audio thread interleaved with
\* get_samples on the main thread, one step per statement.  complete lists
\* the data slices of the callbacks that have returned
\* ------------------------------------------------------------------------
CallbackData == {<<-32768, 16384>>, <<8192>>, <<>>}

AudioFrame == <<edev, eobjs, egiven, etarget, epass, ecall, emesh, timer, scene, graph, editor, avars>>

\* the callback is invoked with a slice and takes the lock
CbLock ==
    /\ audio.cb.pc = "idle"
    /\ audio.invocations < MaxCallbacks
    /\ Mutex_lock(audio.lock)
    /\ \E data \in CallbackData :
          audio' = [audio EXCEPT !.lock = "cb", !.invocations = @ + 1,
                                 !.cb = [pc |-> "clear", data |-> data, i |-> 1]]
    /\ UNCHANGED AudioFrame

CbClear ==
    /\ audio.cb.pc = "clear"
    /\ audio' = [audio EXCEPT !.sample_buffer = <<>>, !.cb.pc = "push"]
    /\ UNCHANGED AudioFrame

CbPush ==
    /\ audio.cb.pc = "push"
    /\ audio.cb.i <= Len(audio.cb.data)
    /\ audio' = [audio EXCEPT !.sample_buffer = Append(@, FromSample(audio.cb.data[audio.cb.i])),
                              !.cb.i = @ + 1]
    /\ UNCHANGED AudioFrame

\* the closure returns and the guard is dropped
CbReturn ==
    /\ audio.cb.pc = "push"
    /\ audio.cb.i > Len(audio.cb.data)
    /\ audio' = [audio EXCEPT !.lock = IF @ = "cb" THEN "free" ELSE @,
                              !.cb.pc = "idle",
                              !.complete = Append(@, audio.cb.data)]
    /\ UNCHANGED AudioFrame

GetSamplesLock ==
    /\ audio.main.pc \in {"idle", "returned"}
    /\ Mutex_lock(audio.lock)
    /\ audio' = [audio EXCEPT !.lock = "main", !.main.pc = "clone"]
    /\ UNCHANGED AudioFrame

\* clone() under the guard, which is dropped at the end of the statement
GetSamplesClone ==
    /\ audio.main.pc = "clone"
    /\ audio' = [audio EXCEPT !.lock = IF @ = "main" THEN "free" ELSE @,
                              !.main = [pc |-> "returned", got |-> audio.sample_buffer,
                                        after |-> Len(audio.complete)]]
    /\ UNCHANGED AudioFrame

AudioNext == CbLock \/ CbClear \/ CbPush \/ CbReturn \/ GetSamplesLock \/ GetSamplesClone

SpecAudio == Init /\ [][AudioNext]_vars

\* ------------------------------------------------------------------------
\* Properties of the engine crate
\* ------------------------------------------------------------------------
IsDraw(c) == c.op = "draw_indexed"

DrawsOf(pass) == SelectSeq(pass, IsDraw)

AllPresent(o) ==
    /\ o.vertex_buffer # None
    /\ o.index_buffer # None
    /\ o.material_buffer # None
    /\ o.model_buffer # None
    /\ o.material_bind_group # None
    /\ o.model_bind_group # None

AllAbsent(o) ==
    /\ o.vertex_buffer = None
    /\ o.index_buffer = None
    /\ o.material_buffer = None
    /\ o.model_buffer = None
    /\ o.material_bind_group = None
    /\ o.model_bind_group = None

\* the draw calls a pass over the list objects must consist of: one per
\* fully present drawable, over its whole index range, in list order
DrawsMatch(pass, objects) ==
    LET draws == DrawsOf(pass)
    IN  /\ \A i \in 1..Len(objects) :
              Cardinality({k \in 1..Len(draws) : draws[k].obj = i})
                  = (IF AllPresent(objects[i]) THEN 1 ELSE 0)
        /\ \A k \in 1..Len(draws) :
              /\ draws[k].obj \in 1..Len(objects)
              /\ draws[k].args = <<objects[draws[k].obj].model_bind_group,
                                   objects[draws[k].obj].material_bind_group,
                                   objects[draws[k].obj].vertex_buffer,
                                   objects[draws[k].obj].index_buffer,
                                   0, objects[draws[k].obj].mesh.n_indices>>
        /\ \A k \in 1..(Len(draws) - 1) : draws[k].obj < draws[k + 1].obj

\* C4: SceneRenderer::render issues exactly one indexed draw call over the
\* full index range for every drawable whose buffers and binding sets are all
\* present, none for any other drawable, in the order of the caller's list.
C4_OneDrawPerReadyDrawable ==
    ecall.op = "render" => DrawsMatch(epass, eobjs)

\* a pass over one uploaded and one not yet uploaded drawable drew once
C4_Witness ==
    /\ ecall.op = "render"
    /\ Len(eobjs) = 2
    /\ AllPresent(eobjs[2])
    /\ AllAbsent(eobjs[1])
    /\ Len(DrawsOf(epass)) = 1

\* C8: RenderTarget::resize with the current size allocates nothing and
\* leaves the target as it is; with another size it replaces the colour and
\* the depth image by newly allocated images of that size, keeping the format.
C8_ResizeIdempotent ==
    [][ecall'.op = "resize" =>
          IF ecall'.arg = <<etarget.width, etarget.height>>
          THEN /\ etarget' = etarget
               /\ edev' = edev
               /\ ecall'.allocs = 0
          ELSE /\ etarget'.width = ecall'.arg[1]
               /\ etarget'.height = ecall'.arg[2]
               /\ etarget'.format = etarget.format
               /\ ecall'.allocs = 2
               /\ etarget'.texture > Len(edev.mem)
               /\ etarget'.depth_texture > Len(edev.mem)
               /\ etarget'.texture # etarget'.depth_texture
               /\ edev'.mem[etarget'.texture].data
                     = <<ecall'.arg[1], ecall'.arg[2], etarget.format>>
               /\ edev'.mem[etarget'.depth_texture].data
                     = <<ecall'.arg[1], ecall'.arg[2], "Depth32Float">>
               /\ \A h \in 1..Len(edev.mem) : edev'.mem[h] = edev.mem[h]
      ]_vars

\* a resize to the current size that allocated nothing, after one that did
C8_Witness ==
    /\ ecall.op = "resize"
    /\ ecall.allocs = 0
    /\ ecall.arg = <<etarget.width, etarget.height>>
    /\ etarget.texture > 2

\* reading a model uniform back as a Mat4 (Mat4::from_cols_array_2d)
Mat4_from_cols_array_2d(a) == [i \in 1..16 |-> a[((i - 1) \div 4) + 1][((i - 1) % 4) + 1]]

ReadBackModel(dev, o) == Mat4_from_cols_array_2d(dev.mem[o.model_buffer].data.model)

\* C9: once a drawable is uploaded, its model uniform buffer holds the
\* transform of the last update_transform call, or the construction
\* transform when there was none, also when the update came before upload.
C9_ModelBufferRoundTrip ==
    \A i \in 1..Len(eobjs) :
        eobjs[i].model_buffer # None =>
            /\ edev.mem[eobjs[i].model_buffer].label = "Model Buffer"
            /\ ReadBackModel(edev, eobjs[i]) = egiven[i].t

\* an upload that followed an update_transform to a transform other than the identity
C9_Witness ==
    /\ ecall.op = "upload"
    /\ egiven[ecall.i].by = "update_transform"
    /\ egiven[ecall.i].t # Mat4_IDENTITY
    /\ ReadBackModel(edev, eobjs[ecall.i]) = egiven[ecall.i].t

\* the handles of a drawable
Handles(o) ==
    <<o.vertex_buffer, o.index_buffer, o.material_buffer, o.model_buffer,
      o.material_bind_group, o.model_bind_group>>

\* C10: the four buffers and two binding sets of a drawable are all absent
\* until upload runs and all present afterwards, and update_transform on an
\* uploaded drawable writes the model buffer only: no handle changes, nothing
\* is allocated and no other resource is written.
C10_DeviceStateAllOrNone ==
    /\ [](\A i \in 1..Len(eobjs) : AllAbsent(eobjs[i]) \/ AllPresent(eobjs[i]))
    /\ [][/\ ecall'.op = "new" => AllAbsent(eobjs'[ecall'.i])
          /\ ecall'.op = "upload" => AllPresent(eobjs'[ecall'.i])
          /\ \A i \in 1..Len(eobjs) :
                /\ (AllAbsent(eobjs[i]) /\ ~(ecall'.op = "upload" /\ ecall'.i = i))
                      => AllAbsent(eobjs'[i])
                /\ AllPresent(eobjs[i]) => AllPresent(eobjs'[i])
          /\ ecall'.op = "update_transform" =>
                /\ \A i \in 1..Len(eobjs) : Handles(eobjs'[i]) = Handles(eobjs[i])
                /\ ecall'.allocs = 0
                /\ \A h \in 1..Len(edev.mem) :
                      h # eobjs[ecall'.i].model_buffer => edev'.mem[h] = edev.mem[h]
         ]_vars

\* an update_transform on an uploaded drawable while another one is not uploaded
C10_Witness ==
    /\ ecall.op = "update_transform"
    /\ AllPresent(eobjs[ecall.i])
    /\ \E j \in 1..Len(eobjs) : AllAbsent(eobjs[j])
    /\ ReadBackModel(edev, eobjs[ecall.i]) # Mat4_IDENTITY

\* ------------------------------------------------------------------------
\* Properties of the render calls of the two Outputs
\* ------------------------------------------------------------------------
IsAcquire(c) == c.op = "acquire"

IsRenderCall == last.event \in {"main_render", "preview_render"}

\* the acquires of the last render call, in order
Acquires == SelectSeq(last.stream, IsAcquire)

AcquireOk(c) == c.args[1]

AcquireMsg(c) == c.args[2]

FirstAcquireFailed == Acquires # <<>> /\ ~AcquireOk(Acquires[1])

Has(stream, op) == \E k \in 1..Len(stream) : stream[k].op = op

\* position of the k-th acquire in the stream
RECURSIVE AcquirePos(_, _, _)
AcquirePos(stream, k, from) ==
    IF stream[from].op = "acquire"
    THEN (IF k = 1 THEN from ELSE AcquirePos(stream, k - 1, from + 1))
    ELSE AcquirePos(stream, k, from + 1)

\* the substrings the render function of the last call retries on
PatternsOfCall == IF last.event = "main_render" THEN MainPatterns ELSE PreviewPatterns

\* the surface configuration of the Output the last call rendered
ConfigOfCall == IF last.event = "main_render" THEN primary[1].config ELSE preview[1].config

EndsPresented(stream) ==
    /\ Len(stream) >= 2
    /\ stream[Len(stream) - 1].op = "submit"
    /\ stream[Len(stream)].op = "present"

C3_RenderErrorNotFatal ==
    /\ [][(last'.event \in {"main_redraw", "preview_redraw"} /\ last'.result = "Err") =>
            /\ ~app'.exited
            /\ app'.window
            /\ primary' # <<>>
            /\ last'.log = <<IF last'.event = "main_redraw" THEN "Render error"
                              ELSE "Preview window render error">>
            /\ last'.event = "main_redraw" => redraw'.main
            /\ last'.event = "preview_redraw" => preview' # <<>>
         ]_vars
    /\ (last.event = "preview_redraw" /\ last.result = "Err")
          ~> (redraw.preview \/ preview = <<>>)

\* the preview's render failed and its next redraw is not yet requested
C3_Witness ==
    /\ last.event = "preview_redraw"
    /\ last.result = "Err"
    /\ last.log = <<"Preview window render error">>
    /\ ~redraw.preview
    /\ ~app.exited

\* the model matrices the drawables of an Output hold on its device
ModelMatrices(out) ==
    [i \in 1..Len(out.render_objects) |-> ReadBackModel(out.dev, out.render_objects[i])]

\* C5: after a preview frame, the i-th drawable of the preview holds the
\* model matrix the i-th drawable of the primary holds.
C5_SameModelMatrices ==
    (last.event = "preview_redraw" /\ preview # <<>> /\ primary # <<>>) =>
        /\ ModelMatrices(preview[1]) = ModelMatrices(primary[1])
        /\ Transforms(preview[1].render_objects) = Transforms(primary[1].render_objects)

\* C7: the preview holds only transform lists the primary held at the end of
\* an earlier frame or at construction, and once a primary frame has left the
\* transforms unchanged, a preview frame after it leaves the preview with the
\* primary's transforms.
C7_EventuallyConsistent ==
    (preview # <<>> /\ primary # <<>>) =>
        /\ Transforms(preview[1].render_objects) \in hist.held
        /\ (hist.stable /\ last.event = "preview_redraw") =>
              Transforms(preview[1].render_objects) = Transforms(primary[1].render_objects)

Generated == emesh.call[1] # "none"

VertexAt(mesh, index) == mesh.vertices[index + 1]

\* the triangles of a mesh, as triples of indices in index order
Triangles(mesh) ==
    {<<mesh.indices[3 * t + 1], mesh.indices[3 * t + 2], mesh.indices[3 * t + 3]>> :
        t \in 0..((Len(mesh.indices) \div 3) - 1)}

Sub3(a, b) == <<a[1] - b[1], a[2] - b[2], a[3] - b[3]>>

Cross3(a, b) ==
    <<a[2] * b[3] - a[3] * b[2], a[3] * b[1] - a[1] * b[3], a[1] * b[2] - a[2] * b[1]>>

Dot3(a, b) == a[1] * b[1] + a[2] * b[2] + a[3] * b[3]

\* a / Milli rounded towards zero, so that the sign of a is never flipped
Thousandth(a) == IF a >= 0 THEN a \div Milli ELSE -((-a) \div Milli)

\* right-hand-rule normal of a triangle taken in index order, its length
\* scaled down to keep the products within 32 bits
FaceNormal(mesh, tri) ==
    LET n == Cross3(Sub3(VertexAt(mesh, tri[2]).position, VertexAt(mesh, tri[1]).position),
                    Sub3(VertexAt(mesh, tri[3]).position, VertexAt(mesh, tri[1]).position))
    IN  <<Thousandth(n[1]), Thousandth(n[2]), Thousandth(n[3])>>

\* C11: every mesh a generator returns for positive counts has a positive
\* number of vertices, a positive number of indices that is a multiple of
\* three, and every index smaller than the number of vertices
C11_MeshWellFormed ==
    Generated =>
        /\ Len(emesh.mesh.vertices) > 0
        /\ Len(emesh.mesh.indices) > 0
        /\ Len(emesh.mesh.indices) % 3 = 0
        /\ \A j \in 1..Len(emesh.mesh.indices) :
              emesh.mesh.indices[j] \in 0..(Len(emesh.mesh.vertices) - 1)

C11_Witness ==
    /\ emesh.call = <<"create_sphere", 800, 8, 6>>
    /\ Len(emesh.mesh.vertices) = 63
    /\ Len(emesh.mesh.indices) = 288
    /\ \E j \in 1..Len(emesh.mesh.indices) : emesh.mesh.indices[j] = 62

\* C12 as stated: in every generated mesh the right-hand-rule normal of every
\* triangle, taken in index order, points to the side the stored normals of
\* its vertices point to (a triangle of zero area is let through)
C12_WindingAgreesWithNormals ==
    Generated =>
        \A tri \in Triangles(emesh.mesh) : \A i \in 1..3 :
            Dot3(FaceNormal(emesh.mesh, tri), VertexAt(emesh.mesh, tri[i]).normal) >= 0

\* C13: create_cube(size) returns 24 vertices and 36 indices, six indices per
\* face that refer only to that face's four vertices, and the four vertices
\* of the +Z face are the corners x = +-size/2, y = +-size/2 at z = size/2
C13_CubeLayout ==
    emesh.call[1] = "create_cube" =>
        LET size == emesh.call[2]
            mesh == emesh.mesh
        IN  /\ Len(mesh.vertices) = 24
            /\ Len(mesh.indices) = 36
            /\ \A face \in 0..5 : \A j \in 1..6 :
                  mesh.indices[6 * face + j] \in (4 * face)..(4 * face + 3)
            /\ 2 * (size \div 2) = size
            /\ {mesh.vertices[k].position : k \in 1..4}
                  = {<<x, y, size \div 2>> : x \in {-(size \div 2), size \div 2},
                                              y \in {-(size \div 2), size \div 2}}
            /\ \A k \in 1..4 : mesh.vertices[k].normal = <<0, 0, Milli>>

C13_Witness ==
    /\ emesh.call = <<"create_cube", 2000>>
    /\ emesh.mesh.vertices[3].position = <<1000, 1000, 1000>>
    /\ emesh.mesh.indices[36] = 20

\* ------------------------------------------------------------------------
\* Camera aspect and surface size
\* ------------------------------------------------------------------------
\* the ratio a[1] / a[2] equals the ratio b[1] / b[2]
SameRatio(a, b) == a[2] # 0 /\ b[2] # 0 /\ a[1] * b[2] = b[1] * a[2]

\* C14 as stated: after a resize event on an Output the aspect of its camera
\* equals width / height of its current surface configuration
C14_AspectFollowsSurface ==
    (preview # <<>> /\ last.event = "resize") =>
        SameRatio(preview[1].scene_renderer.camera.aspect, preview[1].config)

\* ------------------------------------------------------------------------
\* The preview's ready flag
\* ------------------------------------------------------------------------
\* C15: the ready flag of a preview is false from construction until
\* init_scene_objects has run and true from then on; a render while it is
\* false returns Ok, issues no command at all and leaves the whole preview,
\* its drawables and its device included, as it was
C15_ReadyFlag ==
    /\ ~preview[1].is_ready
    /\ [][/\ preview'[1].is_ready
                = (preview[1].is_ready \/ last'.event = "init_scene_objects")
          /\ (last'.event = "render" /\ ~preview[1].is_ready) =>
                /\ last'.result = "Ok"
                /\ last'.arg = <<>>
                /\ preview' = preview]_vars

C15_Witness ==
    /\ last.event = "render"
    /\ last.result = "Ok"
    /\ last.arg = <<>>
    /\ ~preview[1].is_ready
    /\ preview[1].pending_transforms # <<>>

C15_WitnessReady ==
    /\ last.event = "render"
    /\ preview[1].is_ready
    /\ Has(last.arg, "present")

\* ------------------------------------------------------------------------
\* Preview creation and destruction
\* ------------------------------------------------------------------------
CreationAttempted == last.event = "about_to_wait" /\ last.result # "none"

CreationFailed == last.event = "about_to_wait" /\ last.result = "failed"

\* C16: when the creation of the preview fails the application keeps running
\* with the primary unchanged, no preview exists, and show_preview_window and
\* the GUI toggle are both false; a creation is attempted only while
\* show_preview_window is true, which only an update that finds the GUI
\* toggle set makes true, and the toggle is only set in a rendered GUI frame
C16_CreationFailureDisablesPreview ==
    [][/\ CreationFailed' =>
             /\ ~app'.exited
             /\ app'.window
             /\ primary # <<>>
             /\ primary' = primary
             /\ preview' = <<>>
             /\ ~app'.show_preview_window
             /\ ~app'.gui_show
       /\ CreationAttempted' => app.show_preview_window
       /\ (~app.show_preview_window /\ app'.show_preview_window) =>
             (app.gui_show /\ last'.event = "main_redraw")
       /\ (~app.gui_show /\ app'.gui_show) =>
             (last'.event = "main_redraw" /\ last'.result = "Ok")]_vars

C16_Witness ==
    /\ CreationFailed
    /\ last.log = <<"Failed to create preview window">>
    /\ primary # <<>>
    /\ preview = <<>>
    /\ ~app.show_preview_window
    /\ ~app.gui_show
    /\ ~app.exited

\* the calls the last handler made on the preview, init_scene_objects aside
CallsOnPreview ==
    {i \in 1..Len(last.calls) :
        last.calls[i] \in {"preview.render", "preview.resize", "preview.update_scene",
                           "preview.handle_input"}}

\* C17: a close request of the preview or switching its toggle off leaves no
\* preview behind in that same step, together with its device, surface
\* configuration and drawables, and no redraw of it stays requested; a
\* handler calls render, resize, update_scene or handle_input only on a
\* preview that exists when the handler starts and still exists when it
\* ends; a preview only comes into being by a creation in AboutToWait
C17_NoCallOnDestroyedPreview ==
    [][/\ (app.show_preview_window /\ ~app'.show_preview_window) =>
             (preview' = <<>> /\ ~redraw'.preview)
       /\ (preview # <<>> /\ preview' = <<>>) =>
             (CallsOnPreview' = {} /\ ~redraw'.preview)
       /\ CallsOnPreview' # {} => (preview # <<>> /\ preview' # <<>>)
       /\ (preview = <<>> /\ preview' # <<>>) => last' = AboutToWaitEvent("created")]_vars

\* the preview was destroyed by its close request
C17_Witness ==
    /\ last.event = "preview_close"
    /\ last.calls = <<>>
    /\ preview = <<>>
    /\ ~app.show_preview_window
    /\ ~redraw.preview
    /\ primary # <<>>

\* ------------------------------------------------------------------------
\* Order of the commands of one frame
\* ------------------------------------------------------------------------
IsFrame == last.event \in {"main_frame", "preview_frame"}

IsCameraWrite(c) == c.op = "write_buffer" /\ c.obj = 0

IsModelWrite(c) == c.op = "write_buffer" /\ c.obj > 0

\* C18: in the command stream of one frame of one Output the camera uniform
\* is written, and written before the render pass begins; every write of a
\* drawable's model transform precedes the draw call of that drawable; and
\* every write and every draw precedes the submission
C18_WritesPrecedeUse ==
    IsFrame =>
        /\ Has(last.stream, "begin_render_pass") =>
              \E p \in 1..Len(last.stream) : IsCameraWrite(last.stream[p])
        /\ \A p, q \in 1..Len(last.stream) :
              /\ (IsCameraWrite(last.stream[p]) /\ last.stream[q].op = "begin_render_pass")
                    => p < q
              /\ (IsModelWrite(last.stream[p]) /\ IsDraw(last.stream[q])
                     /\ last.stream[p].obj = last.stream[q].obj) => p < q
              /\ ((last.stream[p].op = "write_buffer" \/ IsDraw(last.stream[p]))
                     /\ last.stream[q].op = "submit") => p < q

\* a presented frame of the primary with the writes and draws of two drawables
C18_Witness ==
    /\ last.event = "main_frame"
    /\ last.result = "Ok"
    /\ EndsPresented(last.stream)
    /\ \A i \in 1..2 : \E p, q \in 1..Len(last.stream) :
          /\ IsModelWrite(last.stream[p]) /\ last.stream[p].obj = i
          /\ IsDraw(last.stream[q]) /\ last.stream[q].obj = i

\* a presented frame of the preview that applied pending transforms
C18_WitnessPreview ==
    /\ last.event = "preview_frame"
    /\ last.result = "Ok"
    /\ EndsPresented(last.stream)
    /\ \E p, q \in 1..Len(last.stream) :
          /\ IsModelWrite(last.stream[p])
          /\ IsDraw(last.stream[q]) /\ last.stream[p].obj = last.stream[q].obj

\* ------------------------------------------------------------------------
\* Update and render within the event loop
\* ------------------------------------------------------------------------
\* C19: a handler that renders the primary has completed update before it
\* calls render, and no update follows a render within a handler; the
\* preview is rendered only after an update has completed, by a handler that
\* calls no update and leaves the application state and the primary, its
\* transforms included, untouched; and the time and the transforms of the
\* scene only change in a handler whose first call is update
C19_UpdateBeforeRender ==
    [][/\ \A q \in 1..Len(last'.calls) :
             last'.calls[q] = "render" =>
                \E p \in 1..(q - 1) : last'.calls[p] = "update"
       /\ \A p, q \in 1..Len(last'.calls) :
             (last'.calls[p] = "update"
                 /\ last'.calls[q] \in {"render", "preview.render"}) => p < q
       /\ (\E q \in 1..Len(last'.calls) : last'.calls[q] = "preview.render") =>
             /\ hist.updated
             /\ \A p \in 1..Len(last'.calls) : last'.calls[p] # "update"
             /\ primary' = primary
             /\ app' = app
       /\ (/\ primary # <<>>
           /\ primary' # <<>>
           /\ \/ app'.elapsed # app.elapsed
              \/ Transforms(primary'[1].render_objects)
                    # Transforms(primary[1].render_objects)) =>
             (last'.calls # <<>> /\ last'.calls[1] = "update")]_vars

\* a frame of the primary that advanced the scene, rendered and handed the
\* new transforms to the preview
C19_Witness ==
    /\ last.event = "main_redraw"
    /\ last.calls = <<"update", "render", "preview.update_scene">>
    /\ app.elapsed > 0
    /\ preview # <<>>
    /\ preview[1].pending_transforms = Transforms(primary[1].render_objects)

C19_WitnessPreview ==
    /\ last.event = "preview_redraw"
    /\ last.calls = <<"preview.handle_input", "preview.render">>
    /\ hist.updated
    /\ app.elapsed > 0

\* ------------------------------------------------------------------------
\* Separation of the two Outputs
\* ------------------------------------------------------------------------
\* every handle of drawable o names a resource of the right kind on device dev
OwnedBy(dev, o) ==
    /\ AllPresent(o)
    /\ \A k \in 1..6 : Handles(o)[k] \in 1..Len(dev.mem)
    /\ \A k \in 1..4 : dev.mem[Handles(o)[k]].kind = "buffer"
    /\ dev.mem[o.material_bind_group] = [kind |-> "bind_group", label |-> "Material Bind Group",
                                         data |-> o.material_buffer]
    /\ dev.mem[o.model_bind_group] = [kind |-> "bind_group", label |-> "Model Bind Group",
                                      data |-> o.model_buffer]

\* the handlers that act on the preview only
PreviewOnlyEvents == {"about_to_wait", "preview_resized", "preview_redraw", "preview_close"}

TimerThreadStepped == timer'.pc # timer.pc

\* C21: a step of the timer thread changes nothing but its own position and
\* the tick queue of the main loop, to which it only adds; a post fails only
\* when the event loop is gone, and the thread ends with the first failed
\* post: it never posts, sleeps or fails again
C21_TimerOnlyPosts ==
    /\ [](timer.failed <= 1 /\ (timer.failed = 1 <=> timer.pc = "done"))
    /\ [][/\ TimerThreadStepped =>
                /\ UNCHANGED <<app, primary, preview, redraw, last, hist>>
                /\ UNCHANGED <<edev, eobjs, egiven, etarget, epass, ecall, emesh, scene, graph, editor, audio>>
                /\ timer'.closed = timer.closed
                /\ timer'.queue \in {timer.queue, timer.queue + 1}
          /\ timer'.queue > timer.queue => (timer.pc = "send" /\ ~timer.closed)
          /\ timer'.failed > timer.failed => (timer.closed /\ timer'.pc = "done")
          /\ timer.pc = "done" => (timer'.pc = "done" /\ timer'.failed = timer.failed)]_vars

\* the thread has ended on its first failed post, ticks were posted before
C21_Witness ==
    /\ timer.pc = "done"
    /\ timer.failed = 1
    /\ timer.closed
    /\ app.exited

C21_WitnessPosted ==
    /\ timer.queue = 2
    /\ primary # <<>>
    /\ ~app.exited

\* the ids in a children list
ChildIds(node) == {node.children[k] : k \in 1..Len(node.children)}

\* how often an id stands in a children list
Occurrences(node, id) == Cardinality({k \in 1..Len(node.children) : node.children[k] = id})

\* n lies below id along the parent fields of the nodes of sc
RECURSIVE Below(_, _, _, _)
Below(sc, n, id, fuel) ==
    /\ fuel > 0
    /\ n \in DOMAIN sc.nodes
    /\ sc.nodes[n].parent # <<>>
    /\ \/ sc.nodes[n].parent[1] = id
       \/ Below(sc, sc.nodes[n].parent[1], id, fuel - 1)

Subtree(sc, id) == {id} \cup {n \in DOMAIN sc.nodes : Below(sc, n, id, Cardinality(DOMAIN sc.nodes))}

\* C22: remove_node(id) for a non-root id takes that node and every node
\* below it out of the scene and takes id out of its parent's children list,
\* leaving every other node as it was; remove_node on the root id returns an
\* error and leaves the scene unchanged.
C22_RemoveNode ==
    [][(scene' # scene /\ scene'.call[1] = "remove_node") =>
        LET id == scene'.call[2]
            before == scene.sc
            after == scene'.sc
        IN  IF id = before.root
            THEN scene'.result = <<"Err">> /\ after = before
            ELSE /\ scene'.result = <<"Ok">>
                 /\ DOMAIN after.nodes = (DOMAIN before.nodes) \ Subtree(before, id)
                 /\ after.next_id = before.next_id
                 /\ \A n \in DOMAIN after.nodes :
                        /\ id \notin ChildIds(after.nodes[n]) \/ ~(id \in DOMAIN before.nodes /\ before.nodes[id].parent = <<n>>)
                        /\ after.nodes[n].parent = before.nodes[n].parent
                        /\ after.nodes[n].children =
                               IF id \in DOMAIN before.nodes /\ before.nodes[id].parent = <<n>>
                               THEN SelectSeq(before.nodes[n].children, LAMBDA c : c # id)
                               ELSE before.nodes[n].children]_vars

\* a node with a child of its own has been removed, and both are gone
C22_Witness ==
    /\ scene.call = <<"remove_node", 1>>
    /\ scene.result = <<"Ok">>
    /\ DOMAIN scene.sc.nodes = {0, 3}
    /\ scene.sc.next_id = 4
    /\ scene.sc.nodes[0].children = <<3>>

\* remove_node on the root of a scene with nodes has returned the error
C22_WitnessRoot ==
    /\ scene.call = <<"remove_node", 0>>
    /\ scene.result = <<"Err">>
    /\ Cardinality(DOMAIN scene.sc.nodes) = 3

\* C23: create_node with a parent id that is not in the scene returns an
\* error, adds no node and changes no children list; with a parent that
\* exists, or with no parent (the root), it adds exactly one node under an id
\* no node of the scene used, sets its parent, and lists it exactly once
\* among the parent's children.
C23_CreateNode ==
    [][(scene' # scene /\ scene'.call[1] = "create_node") =>
        LET parent == scene'.call[2]
            before == scene.sc
            after == scene'.sc
            parent_id == IF parent = <<>> THEN before.root ELSE parent[1]
        IN  IF parent_id \notin DOMAIN before.nodes
            THEN /\ scene'.result = <<"Err">>
                 /\ after.nodes = before.nodes
            ELSE /\ scene'.result[1] = "Ok"
                 /\ LET id == scene'.result[2]
                    IN  /\ id \notin DOMAIN before.nodes
                        /\ DOMAIN after.nodes = DOMAIN before.nodes \cup {id}
                        /\ after.nodes[id].parent = <<parent_id>>
                        /\ after.nodes[id].id = id
                        /\ Occurrences(after.nodes[parent_id], id) = 1
                        /\ \A n \in (DOMAIN before.nodes) \ {parent_id} :
                               after.nodes[n] = before.nodes[n]]_vars

\* a node has been created under a parent that is not the root
C23_Witness ==
    /\ scene.call = <<"create_node", <<1>>>>
    /\ scene.result = <<"Ok", 2>>
    /\ scene.sc.nodes[1].children = <<2>>

\* create_node under an absent parent has failed in a scene with nodes
C23_WitnessMissing ==
    /\ scene.call = <<"create_node", <<3>>>>
    /\ scene.result = <<"Err">>
    /\ DOMAIN scene.sc.nodes = {0, 1}

\* C27: after any sequence of create_node, remove_node and clear, every id in
\* a node's children list is the id of a node of the scene whose parent field
\* names that node, and the parent of every node but the root is in the scene.
C27_ChildrenAndParentsAgree ==
    \A n \in DOMAIN scene.sc.nodes :
        /\ \A c \in ChildIds(scene.sc.nodes[n]) :
               c \in DOMAIN scene.sc.nodes /\ scene.sc.nodes[c].parent = <<n>>
        /\ n # scene.sc.root =>
               /\ scene.sc.nodes[n].parent # <<>>
               /\ scene.sc.nodes[n].parent[1] \in DOMAIN scene.sc.nodes

\* the nodes a stored connection starts and ends at
EndNodes(g) ==
    UNION {{g.connections[k].from_node, g.connections[k].to_node} :
              k \in 1..Len(g.connections)}

\* C24: after any sequence of add_node, remove_node, connect and disconnect
\* on the scene crate's NodeGraph, both end nodes of every stored connection
\* exist; connect returns an error and stores nothing when its source or
\* target node is missing; remove_node deletes every connection that starts
\* or ends at the removed node.
C24_ConnectionsHaveEndNodes ==
    /\ [](EndNodes(graph.g) \subseteq DOMAIN graph.g.nodes)
    /\ [][(graph' # graph /\ graph'.call[1] = "connect") =>
            LET c == graph'.call[2]
            IN  IF c.from_node \in DOMAIN graph.g.nodes /\ c.to_node \in DOMAIN graph.g.nodes
                THEN /\ graph'.result = "Ok"
                     /\ graph'.g.connections = Append(graph.g.connections, c)
                ELSE /\ graph'.result # "Ok"
                     /\ graph'.g = graph.g]_vars
    /\ [][(graph' # graph /\ graph'.call[1] = "remove_node") =>
            /\ graph'.call[2] \notin EndNodes(graph'.g)
            /\ graph'.call[2] \notin DOMAIN graph'.g.nodes
            /\ graph'.g.connections =
                   SelectSeq(graph.g.connections, LAMBDA c :
                       graph'.call[2] \notin {c.from_node, c.to_node})]_vars

\* a node with two connections has been removed and its connections are gone
C24_Witness ==
    /\ graph.call = <<"remove_node", "output">>
    /\ DOMAIN graph.g.nodes = {"shader"}
    /\ Len(graph.g.connections) = 1
    /\ graph.g.connections[1].to_node = "shader"

\* connect towards a missing node has failed in a graph holding a connection
C24_WitnessMissing ==
    /\ graph.call[1] = "connect"
    /\ graph.result = "Err: target not found"
    /\ Len(graph.g.connections) = 1

\* a stored connection leads from an output socket to an input socket of
\* nodes of the graph
WellConnected(g, c) ==
    /\ c.from_node \in DOMAIN g.nodes
    /\ c.to_node \in DOMAIN g.nodes
    /\ \E k \in 1..Len(g.nodes[c.from_node].outputs) :
           g.nodes[c.from_node].outputs[k].id = c.from_socket
    /\ \E k \in 1..Len(g.nodes[c.to_node].inputs) :
           g.nodes[c.to_node].inputs[k].id = c.to_socket

\* the two properties of the stored connections
EditorInvariant(g) ==
    /\ \A k \in 1..Len(g.connections) : WellConnected(g, g.connections[k])
    /\ \A j, k \in 1..Len(g.connections) :
           (/\ g.connections[j].to_node = g.connections[k].to_node
            /\ g.connections[j].to_socket = g.connections[k].to_socket) => j = k

\* what add_connection does: it stores the connection in place of any other
\* to the same input, or returns false and stores nothing
AddConnectionStep ==
    (editor' # editor /\ editor'.call[1] = "add_connection") =>
        LET c == editor'.call[2]
        IN  IF WellConnected(editor.g, c)
            THEN /\ editor'.result = TRUE
                 /\ editor'.g.connections =
                        Append(SelectSeq(editor.g.connections, LAMBDA o :
                                   o.to_node # c.to_node \/ o.to_socket # c.to_socket), c)
            ELSE /\ editor'.result = FALSE
                 /\ editor'.g = editor.g

\* C25: after any sequence of add_node, add_connection, remove_connection and
\* remove_node on the editor's NodeGraph, every stored connection leads from
\* an output socket to an input socket of existing nodes and every input
\* socket has at most one incoming connection: add_connection replaces a
\* connection to the same input, and returns false and stores nothing when a
\* node or socket is missing or the direction is not output to input.
C25_EditorConnectionsValid == [](EditorInvariant(editor.g)) /\ [][AddConnectionStep]_vars

\* the buffer contents one complete callback invocation on data leaves
Written(data) == [k \in 1..Len(data) |-> FromSample(data[k])]

\* C28: under any interleaving of the audio callback and the main thread,
\* get_samples returns the empty buffer when no callback has completed, and
\* otherwise exactly the samples written by one complete callback invocation
\* (the latest one); never a partly cleared or partly filled buffer.
C28_GetSamplesAtomic ==
    audio.main.pc = "returned" =>
        /\ audio.main.after = 0 => audio.main.got = <<>>
        /\ audio.main.after > 0 => audio.main.got = Written(audio.complete[audio.main.after])

\* get_samples has returned the two samples of a callback while the next
\* callback is in the middle of filling the buffer
C28_Witness ==
    /\ audio.main.pc = "returned"
    /\ audio.main.got = <<-1000, 500>>
    /\ audio.cb.pc = "push"
    /\ audio.cb.i = 1
    /\ audio.cb.data = <<8192>>

\* get_samples has returned the empty buffer before any callback completed
C28_WitnessEmpty ==
    /\ audio.main.pc = "returned"
    /\ audio.main.after = 0
    /\ audio.cb.pc = "push"
    /\ audio.cb.i = 2

\* C29: PreviewWindow::render on a ready preview whose drawable list is empty
\* returns Ok without applying pending transforms, acquiring, submitting or
\* presenting; while the list is empty no render presents a frame.
C29_EmptyPreviewRendersNothing ==
    [][(last'.event = "render" /\ preview[1].is_ready /\ preview[1].render_objects = <<>>) =>
        /\ last'.result = "Ok"
        /\ last'.arg = <<>>
        /\ preview' = preview]_vars

\* a ready preview initialised from an empty list, with transforms pending,
\* has been rendered
C29_Witness ==
    /\ last.event = "render"
    /\ last.result = "Ok"
    /\ last.arg = <<>>
    /\ preview[1].is_ready
    /\ preview[1].render_objects = <<>>
    /\ Len(preview[1].pending_transforms) = 2

\* the stored size and the surface configuration of an Output
SizeAndConfig(output) == <<output.size, output.config>>

\* C30: a resize of either Output with width 0 or height 0 leaves the stored
\* size and the surface configuration unchanged and configures no surface;
\* the preview's surface configuration has width >= 1 and height >= 1 in
\* every reachable state.
C30_ZeroResizeIgnored ==
    /\ [](preview # <<>> => (preview[1].config[1] >= 1 /\ preview[1].config[2] >= 1))
    /\ [][(last'.event \in {"renderer.resize", "preview.resize"} /\ ~NonZero(last'.inner)) =>
            /\ SizeAndConfig(primary'[1]) = SizeAndConfig(primary[1])
            /\ SizeAndConfig(preview'[1]) = SizeAndConfig(preview[1])
            /\ \A k \in 1..Len(last'.stream) : last'.stream[k].op # "configure"]_vars

\* a preview created for a minimised window, configured 1 by 1, has been
\* resized to a size of width 0
C30_Witness ==
    /\ last.event = "preview.resize"
    /\ last.inner = <<0, 1>>
    /\ preview[1].size = <<0, 0>>
    /\ preview[1].config = <<1, 1>>

\* the primary Output has been resized to a size of height 0 and kept its size
C30_WitnessMain ==
    /\ last.event = "renderer.resize"
    /\ last.inner = <<1, 0>>
    /\ primary[1].size = <<2, 1>>
    /\ primary[1].config = <<2, 1>>

\* C26: at every event boundary a preview exists only while
\* show_preview_window is true, and there is at most one; a preview is created
\* only while show_preview_window is true, no preview exists and the primary
\* renderer is initialised; switching the toggle off or closing the preview
\* window leaves none.
C26_PreviewFollowsToggle ==
    /\ [](Len(preview) <= 1 /\ (preview # <<>> => app.show_preview_window))
    /\ [][/\ (preview' # preview /\ preview' # <<>> /\ last'.event # "main_redraw"
                 /\ last'.event # "preview_redraw" /\ last'.event # "preview_resized") =>
                (app.show_preview_window /\ preview = <<>> /\ primary # <<>>)
          /\ (app.show_preview_window /\ ~app'.show_preview_window) => preview' = <<>>
          /\ last'.event = "preview_close" => (preview' = <<>> /\ ~app'.show_preview_window)]_vars

\* after a frame of the main window the toggle is off and no preview exists
C26_WitnessToggledOff ==
    /\ last.event = "main_redraw"
    /\ preview = <<>>
    /\ ~app.show_preview_window
    /\ ~app.gui_show
    /\ primary # <<>>
    /\ hist.updated

\* a preview has been created with the toggle on
C26_Witness ==
    /\ last = AboutToWaitEvent("created")
    /\ preview # <<>>
    /\ app.show_preview_window

====
